---- MODULE Spec2Model ----
(***************************************************************************)
(* Model of the music-metadata batch scripts of FormulaicSquid/Scripts:    *)
(* StudioAlbumFinder.py, music_pipeline.py, youtube_music_processor.py,    *)
(* MusicSorter.py, MetadataEnhancer.py and music_utils.py, and of the      *)
(* Spotify importer YoutubePlaylistToSpotify.py.                           *)
(*                                                                         *)
(* A Python str is a sequence of characters; a character is a one-letter   *)
(* TLA+ string (the token NonLatinChar stands for one character above      *)
(* U+00FF).  Python's None is the value NoneV.  A csv row (a dict) is a    *)
(* function from column names to values.                                   *)
(***************************************************************************)
EXTENDS Integers, Sequences, FiniteSets, TLC

(***************************************************************************)
(* Characters and the str methods the scripts use.                         *)
(***************************************************************************)
Lowers == <<"a","b","c","d","e","f","g","h","i","j","k","l","m",
            "n","o","p","q","r","s","t","u","v","w","x","y","z">>

Uppers == <<"A","B","C","D","E","F","G","H","I","J","K","L","M",
            "N","O","P","Q","R","S","T","U","V","W","X","Y","Z">>

NonLatinChar == "U+0436"

\* ord(c): the code point of a character.
Ord(c) ==
    IF \E i \in 1..Len(Lowers) : Lowers[i] = c
    THEN 96 + (CHOOSE i \in 1..Len(Lowers) : Lowers[i] = c)
    ELSE IF \E i \in 1..Len(Uppers) : Uppers[i] = c
    THEN 64 + (CHOOSE i \in 1..Len(Uppers) : Uppers[i] = c)
    ELSE CASE c = " "  -> 32
           [] c = "\""  -> 34
           [] c = "'"  -> 39
           [] c = "("  -> 40
           [] c = ")"  -> 41
           [] c = "-"  -> 45
           [] c = "/"  -> 47
           [] c = ":"  -> 58
           [] c = "["  -> 91
           [] c = "]"  -> 93
           [] c = NonLatinChar -> 1078
           [] OTHER    -> 63

\* str.lower() on one character.
LowerChar(c) ==
    IF \E i \in 1..Len(Uppers) : Uppers[i] = c
    THEN Lowers[CHOOSE i \in 1..Len(Uppers) : Uppers[i] = c]
    ELSE c

\* str.lower()
Lower(s) == [i \in 1..Len(s) |-> LowerChar(s[i])]

\* The characters str.strip() removes (of the characters modelled: the space).
IsSpace(c) == Ord(c) \in {9, 10, 11, 12, 13, 32}

RECURSIVE LStrip(_)
LStrip(s) == IF s # <<>> /\ IsSpace(Head(s)) THEN LStrip(Tail(s)) ELSE s

RECURSIVE RStrip(_)
RStrip(s) ==
    IF s # <<>> /\ IsSpace(s[Len(s)]) THEN RStrip(SubSeq(s, 1, Len(s) - 1)) ELSE s

\* str.strip()
Strip(s) == RStrip(LStrip(s))

\* str.startswith / str.endswith / the `in` operator on strings.
StartsWith(s, p) == Len(p) <= Len(s) /\ SubSeq(s, 1, Len(p)) = p

EndsWith(s, p) == Len(p) <= Len(s) /\ SubSeq(s, Len(s) - Len(p) + 1, Len(s)) = p

Contains(s, p) == \E i \in 0..(Len(s) - Len(p)) : SubSeq(s, i + 1, i + Len(p)) = p

\* Python's < on two str: lexicographic by code point.
RECURSIVE StrLess(_, _)
StrLess(a, b) ==
    IF b = <<>> THEN FALSE
    ELSE IF a = <<>> THEN TRUE
    ELSE IF Ord(Head(a)) # Ord(Head(b)) THEN Ord(Head(a)) < Ord(Head(b))
    ELSE StrLess(Tail(a), Tail(b))

\* None, as csv.DictReader fills the missing fields of a short row with.
NoneV == <<"<None>">>

\* Truthiness of None or a str.
Truthy(v) == v # NoneV /\ v # <<>>

(***************************************************************************)
(* Title parsing of music_pipeline.py (TitleParser).                       *)
(***************************************************************************)
PREFIXES == << <<"o","f","f","i","c","i","a","l">>,
               <<"m","u","s","i","c"," ","v","i","d","e","o">>,
               <<"l","y","r","i","c"," ","v","i","d","e","o">>,
               <<"a","u","d","i","o">>,
               <<"h","d">>,
               <<"h","q">> >>

SUFFIXES == << <<"o","f","f","i","c","i","a","l">>,
               <<"m","u","s","i","c"," ","v","i","d","e","o">>,
               <<"l","y","r","i","c"," ","v","i","d","e","o">>,
               <<"a","u","d","i","o">>,
               <<"l","y","r","i","c","s">>,
               <<"h","d">>,
               <<"h","q">> >>

ALBUM_INDICATORS == { <<"f","u","l","l"," ","a","l","b","u","m">>,
                      <<"c","o","m","p","l","e","t","e"," ","a","l","b","u","m">>,
                      <<"e","n","t","i","r","e"," ","a","l","b","u","m">>,
                      <<"w","h","o","l","e"," ","a","l","b","u","m">> }

\* The loop `for prefix in prefixes: if text_lower.startswith(prefix): ...`
RECURSIVE StripPrefixes(_, _)
StripPrefixes(text, k) ==
    IF k > Len(PREFIXES) THEN text
    ELSE IF StartsWith(Lower(text), PREFIXES[k])
         THEN StripPrefixes(Strip(SubSeq(text, Len(PREFIXES[k]) + 1, Len(text))), k + 1)
         ELSE StripPrefixes(text, k + 1)

\* The loop `for suffix in suffixes: if text_lower.endswith(suffix): ...`
RECURSIVE StripSuffixes(_, _)
StripSuffixes(text, k) ==
    IF k > Len(SUFFIXES) THEN text
    ELSE IF EndsWith(Lower(text), SUFFIXES[k])
         THEN StripSuffixes(Strip(SubSeq(text, 1, Len(text) - Len(SUFFIXES[k]))), k + 1)
         ELSE StripSuffixes(text, k + 1)

\* re.sub(r'\([^)]*\)', '', text) with `open`, `close` the two delimiters:
\* each leftmost `open` that has a `close` after it is removed up to the
\* first such `close`.
RECURSIVE RemoveDelimited(_, _, _)
RemoveDelimited(s, open, close) ==
    IF s = <<>> THEN <<>>
    ELSE IF Head(s) = open /\ \E i \in 2..Len(s) : s[i] = close
         THEN LET j == CHOOSE i \in 2..Len(s) :
                           s[i] = close /\ \A h \in 2..(i - 1) : s[h] # close
              IN  RemoveDelimited(SubSeq(s, j + 1, Len(s)), open, close)
         ELSE <<Head(s)>> \o RemoveDelimited(Tail(s), open, close)

\* TitleParser.clean_text
clean_text(text) ==
    Strip(RemoveDelimited(
              RemoveDelimited(StripSuffixes(StripPrefixes(Strip(text), 1), 1), "(", ")"),
              "[", "]"))

(***************************************************************************)
(* Title cleaning of youtube_music_processor.py (TitleParser.clean_title)  *)
(* and of MetadataEnhancer.py (MetadataEnhancer.clean_title).              *)
(***************************************************************************)
CLEANUP_TERMS == << <<"o","f","f","i","c","i","a","l">>,
                   <<"m","u","s","i","c"," ","v","i","d","e","o">>,
                   <<"l","y","r","i","c"," ","v","i","d","e","o">>,
                   <<"a","u","d","i","o">>,
                   <<"h","d">>,
                   <<"h","q">>,
                   <<"l","y","r","i","c","s">> >>

\* The loop `for term in cls.CLEANUP_TERMS`: the term is cut from the start and
\* then from the end of the text, which is stripped after each cut.
RECURSIVE StripTerms(_, _)
StripTerms(text, k) ==
    IF k > Len(CLEANUP_TERMS) THEN text
    ELSE LET term == CLEANUP_TERMS[k]
             a == IF StartsWith(Lower(text), term)
                  THEN Strip(SubSeq(text, Len(term) + 1, Len(text)))
                  ELSE text
             b == IF EndsWith(Lower(a), term)
                  THEN Strip(SubSeq(a, 1, Len(a) - Len(term)))
                  ELSE a
         IN  StripTerms(b, k + 1)

\* TitleParser.clean_title of youtube_music_processor.py
ymp_clean_title(title) ==
    Strip(RemoveDelimited(RemoveDelimited(StripTerms(Strip(title), 1), "(", ")"),
                          "[", "]"))

\* The patterns_to_remove of MetadataEnhancer.clean_title, in their order.  A
\* pattern is a sequence of alternatives <<opener, closer>>, lower-cased as
\* re.IGNORECASE compares them: the literal opener, then `.*?` up to the first
\* closer; an empty closer makes the alternative a literal.  The two patterns
\* of Japanese brackets are left out: they hold characters that the titles
\* modelled do not.
patterns_to_remove ==
    << << << <<"[","o","f","f","i","c","i","a","l">>, <<"]">> >> >>,
       << << <<"(","o","f","f","i","c","i","a","l">>, <<")">> >> >>,
       << << <<"[","o","f","f","i","c","i","a","l">>, <<"]">> >> >>,
       << << <<"(","o","f","f","i","c","i","a","l">>, <<")">> >> >>,
       << << <<"[","f","u","l","l">>, <<"]">> >> >>,
       << << <<"(","f","u","l","l">>, <<")">> >> >>,
       << << <<"[","f","u","l","l">>, <<"]">> >> >>,
       << << <<"(","f","u","l","l">>, <<")">> >> >>,
       << << <<"[","h","d","]">>, <<>> >> >>,
       << << <<"(","h","d",")">>, <<>> >> >>,
       << << <<"[","h","q","]">>, <<>> >> >>,
       << << <<"(","h","q",")">>, <<>> >> >>,
       << << <<"[","l","y","r","i","c","s","]">>, <<>> >>, << <<"[","l","y","r","i","c","]">>, <<>> >> >>,
       << << <<"(","l","y","r","i","c","s",")">>, <<>> >>, << <<"(","l","y","r","i","c",")">>, <<>> >> >>,
       << << <<"[","o","f","f","i","c","i","a","l">>, <<"v","i","d","e","o","]">> >> >>,
       << << <<"(","o","f","f","i","c","i","a","l">>, <<"v","i","d","e","o",")">> >> >>,
       << << <<"[","m","u","s","i","c"," ","v","i","d","e","o","]">>, <<>> >> >>,
       << << <<"(","m","u","s","i","c"," ","v","i","d","e","o",")">>, <<>> >> >>,
       << << <<"[","a","u","d","i","o","]">>, <<>> >> >>,
       << << <<"(","a","u","d","i","o",")">>, <<>> >> >>,
       << << <<"o","f","f","i","c","i","a","l"," ","v","i","d","e","o">>, <<>> >> >>,
       << << <<"o","f","f","i","c","i","a","l"," ","m","u","s","i","c"," ","v","i","d","e","o">>, <<>> >> >>,
       << << <<"m","u","s","i","c"," ","v","i","d","e","o">>, <<>> >> >>,
       << << <<"l","y","r","i","c"," ","v","i","d","e","o">>, <<>> >> >>,
       << << <<"o","f","f","i","c","i","a","l"," ","a","u","d","i","o">>, <<>> >> >>,
       << << <<"o","f","f","i","c","i","a","l"," ","l","y","r","i","c"," ","v","i","d","e","o">>, <<>> >> >> >>

\* The length of the match of the alternative at the start of s, 0 without one.
MatchLen(s, alt) ==
    LET ls == Lower(s)
        o  == alt[1]
        c  == alt[2]
        Ends == {j \in Len(o)..(Len(s) - Len(c)) : SubSeq(ls, j + 1, j + Len(c)) = c}
    IN  IF ~StartsWith(ls, o) THEN 0
        ELSE IF c = <<>> THEN Len(o)
        ELSE IF Ends = {} THEN 0
        ELSE (CHOOSE j \in Ends : \A h \in Ends : j <= h) + Len(c)

\* re.sub(pattern, '', s, flags=re.IGNORECASE) for one of the patterns.
RECURSIVE ReSub(_, _)
ReSub(s, alts) ==
    IF s = <<>> THEN <<>>
    ELSE LET Hits == {a \in 1..Len(alts) : MatchLen(s, alts[a]) > 0}
         IN  IF Hits = {} THEN <<Head(s)>> \o ReSub(Tail(s), alts)
             ELSE LET a == CHOOSE x \in Hits : \A y \in Hits : x <= y
                  IN  ReSub(SubSeq(s, MatchLen(s, alts[a]) + 1, Len(s)), alts)

\* The loop `for pattern in patterns_to_remove`.
RECURSIVE RemovePatterns(_, _)
RemovePatterns(s, k) ==
    IF k > Len(patterns_to_remove) THEN s
    ELSE RemovePatterns(ReSub(s, patterns_to_remove[k]), k + 1)

\* re.sub(r'\s+', ' ', s)
RECURSIVE CollapseSpaces(_)
CollapseSpaces(s) ==
    IF s = <<>> THEN <<>>
    ELSE IF IsSpace(Head(s)) THEN <<" ">> \o CollapseSpaces(LStrip(s))
    ELSE <<Head(s)>> \o CollapseSpaces(Tail(s))

\* re.sub(r'\s*-\s*', ' - ', s)
RECURSIVE NormalizeSeparators(_)
NormalizeSeparators(s) ==
    IF s = <<>> THEN <<>>
    ELSE LET t == LStrip(s)
         IN  IF t # <<>> /\ Head(t) = "-"
             THEN <<" ", "-", " ">> \o NormalizeSeparators(LStrip(Tail(t)))
             ELSE <<Head(s)>> \o NormalizeSeparators(Tail(s))

\* MetadataEnhancer.clean_title
me_clean_title(title) ==
    NormalizeSeparators(Strip(CollapseSpaces(RemovePatterns(title, 1))))

\* A string matching \s*\(.*\) (open = "(") or \s*\[.*\] (open = "[").
IsDelimitedTail(t, open, close) ==
    LET u == LStrip(t) IN Len(u) >= 2 /\ u[1] = open /\ u[Len(u)] = close

\* A string matching (?:\s*\(.*\))?(?:\s*\[.*\])?$
TailOK(t) ==
    \/ t = <<>>
    \/ IsDelimitedTail(t, "(", ")")
    \/ IsDelimitedTail(t, "[", "]")
    \/ \E k \in 1..(Len(t) - 1) :
          /\ IsDelimitedTail(SubSeq(t, 1, k), "(", ")")
          /\ IsDelimitedTail(SubSeq(t, k + 1, Len(t)), "[", "]")

\* The lazy group (.+?) followed by the optional tails and $, matched
\* against m: the shortest non-empty prefix of m whose rest is a tail.
LazyGroup(m) ==
    LET e == CHOOSE i \in 1..Len(m) :
                 TailOK(SubSeq(m, i + 1, Len(m)))
                 /\ \A h \in 1..(i - 1) : ~TailOK(SubSeq(m, h + 1, Len(m)))
    IN  SubSeq(m, 1, e)

\* Group 2 of a pattern, matched against q, what follows the separator and
\* its \s* (minWs = 0) or \s+ (minWs = 1).  \s* is greedy and gives back
\* whitespace only when nothing else is left for the group.
WsRun(q) == Len(q) - Len(LStrip(q))

Group2Matches(q, minWs) ==
    /\ WsRun(q) >= minWs
    /\ (LStrip(q) # <<>> \/ WsRun(q) >= minWs + 1)

Group2(q) ==
    IF LStrip(q) # <<>> THEN LazyGroup(LStrip(q)) ELSE <<q[Len(q)]>>

NoMatch == <<NoneV>>

\* re.match of ^(.+?)\s*SEP\s*(.+?)(?:\s*\(.*\))?(?:\s*\[.*\])?$ : the
\* two groups, or NoMatch.
SepAt(s, n, sep) ==
    LET r == LStrip(SubSeq(s, n + 1, Len(s)))
    IN  r # <<>> /\ Head(r) = sep /\ Group2Matches(Tail(r), 0)

MatchSep(s, sep) ==
    IF \E n \in 1..Len(s) : SepAt(s, n, sep)
    THEN LET n == CHOOSE i \in 1..Len(s) :
                      SepAt(s, i, sep) /\ \A h \in 1..(i - 1) : ~SepAt(s, h, sep)
         IN  <<SubSeq(s, 1, n), Group2(Tail(LStrip(SubSeq(s, n + 1, Len(s)))))>>
    ELSE NoMatch

\* re.match of ^["'](.+?)["'].*?by\s+(.+?)(?:\s*\(.*\))?(?:\s*\[.*\])?$
IsQuote(c) == c = "\"" \/ c = "'"

ByAt(r, p) ==
    /\ p + 2 <= Len(r)
    /\ r[p + 1] = "b" /\ r[p + 2] = "y"
    /\ Group2Matches(SubSeq(r, p + 3, Len(r)), 1)

QuoteAt(s, k) ==
    /\ IsQuote(s[k])
    /\ \E p \in 0..(Len(s) - k) : ByAt(SubSeq(s, k + 1, Len(s)), p)

MatchQuoted(s) ==
    IF s # <<>> /\ IsQuote(Head(s)) /\ \E k \in 3..Len(s) : QuoteAt(s, k)
    THEN LET k == CHOOSE i \in 3..Len(s) :
                      QuoteAt(s, i) /\ \A h \in 3..(i - 1) : ~QuoteAt(s, h)
             r == SubSeq(s, k + 1, Len(s))
             p == CHOOSE i \in 0..Len(r) :
                      ByAt(r, i) /\ \A h \in 0..(i - 1) : ~ByAt(r, h)
         IN  <<SubSeq(s, 2, k - 1), Group2(SubSeq(r, p + 3, Len(r)))>>
    ELSE NoMatch

\* `for pattern in cls.PATTERNS: match = re.match(pattern, cleaned_title)`:
\* the groups of the first pattern that matches (the fourth pattern equals
\* the first).
FirstMatch(s) ==
    IF MatchSep(s, "-") # NoMatch THEN MatchSep(s, "-")
    ELSE IF MatchSep(s, ":") # NoMatch THEN MatchSep(s, ":")
    ELSE MatchQuoted(s)

\* any(indicator in title.lower() for indicator in cls.ALBUM_INDICATORS)
IsFullAlbum(title) == \E ind \in ALBUM_INDICATORS : Contains(Lower(title), ind)

\* TitleParser.parse_title of music_pipeline.py
parse_title(title) ==
    LET m == FirstMatch(clean_text(title))
    IN  [artist |-> IF m = NoMatch THEN <<>> ELSE Strip(m[1]),
         track  |-> IF m = NoMatch THEN <<>> ELSE Strip(m[2]),
         is_full_album |-> IsFullAlbum(title)]

(***************************************************************************)
(* Rows, csv files and the input files the runs are started on.            *)
(***************************************************************************)
\* The key csv.DictReader files the surplus fields of a long row under (None).
RestKey == "<restkey>"

\* entry.get(col, '')
Get(entry, col) == IF col \in DOMAIN entry THEN entry[col] ELSE <<>>

\* result[col] = v on a dict
Put(entry, col, v) ==
    [c \in (DOMAIN entry) \cup {col} |-> IF c = col THEN v ELSE entry[c]]

\* The two header rows of the persisted format.
H4 == {"title", "artist", "track", "album"}

H3 == {"track", "artist", "album"}

Headers == {H4, H3}

\* Bounds of the model: rows per input file, seconds one HTTP request takes.
MaxRows == 2

MaxDur == 1

sTitleAB == <<"A", " ", "-", " ", "B">>

sTitleAlbum == <<"A", " ", "-", " ", "B", " ", "F", "u", "l", "l", " ", "a", "l", "b", "u", "m">>

sTitleNonLatin == <<NonLatinChar, " ", "-", " ", NonLatinChar>>

\* The rows of the input files, as csv.DictReader returns them for the
\* header title,artist,track,album: complete rows, rows with an empty or
\* blank artist, a short row (the missing fields are None) and a long row
\* (the surplus fields under RestKey).
BaseRows ==
    { [title |-> sTitleAB, artist |-> <<"A">>, track |-> <<"B">>, album |-> <<>>],
      [title |-> sTitleAB, artist |-> <<"A">>, track |-> <<"B">>, album |-> <<" ", "X">>],
      [title |-> <<>>, artist |-> <<"A">>, track |-> <<"B">>, album |-> <<"X">>],
      [title |-> <<"B">>, artist |-> <<>>, track |-> <<>>, album |-> <<>>],
      [title |-> <<"B">>, artist |-> <<" ">>, track |-> <<"B">>, album |-> <<"X">>],
      [title |-> sTitleNonLatin, artist |-> <<NonLatinChar>>, track |-> <<NonLatinChar>>,
       album |-> <<>>],
      [title |-> sTitleAlbum, artist |-> <<"A">>,
       track |-> <<"B", " ", "F", "u", "l", "l", " ", "a", "l", "b", "u", "m">>,
       album |-> <<>>] }

ShortRow(h) ==
    [c \in h |-> IF c = "title" \/ (c = "track" /\ "title" \notin h)
                 THEN (IF c = "title" THEN sTitleAB ELSE <<"B">>) ELSE NoneV]

LongRow(h) ==
    [c \in h \cup {RestKey} |->
        CASE c = "title"  -> sTitleAB
          [] c = "artist" -> <<"A">>
          [] c = "track"  -> <<"B">>
          [] c = "album"  -> <<"X">>
          [] OTHER        -> <<"e">>]

RowsFor(h) == {[c \in h |-> r[c]] : r \in BaseRows} \cup {ShortRow(h), LongRow(h)}

RECURSIVE SeqsUpTo(_, _)
SeqsUpTo(S, n) ==
    IF n = 0 THEN {<<>>}
    ELSE LET shorter == SeqsUpTo(S, n - 1)
         IN  shorter \cup {Append(q, x) : q \in {t \in shorter : Len(t) = n - 1}, x \in S}

\* The scripts and commands that run a batch over the rows of a csv file.
Cmds == {"saf", "mp_enhance", "mp_studio", "ymp_enhance", "ymp_studio"}

\* The three sort steps: MusicSorter.py, `sort` of music_pipeline.py and of
\* youtube_music_processor.py.
SortCmds == {"ms_sort", "mp_sort", "ymp_sort"}

IsYmp(c) == c \in {"ymp_enhance", "ymp_studio", "ymp_sort"}

\* RATE_LIMIT_DELAY, in seconds.
RateLimit == 1

(***************************************************************************)
(* What one HTTP request to MusicBrainz can come back with.                *)
(***************************************************************************)
\* session.get raises / answers with another status than 200 /
\* response.json() raises / a parsed body.
FailureStatuses == {"error", "non200", "badjson"}

Ok(body) == [status |-> "ok", body |-> body]

\* data['release-groups']: the titles of the release groups found.
ReleaseGroupBodies == { <<>>, << <<>> >>, << <<"x">> >>, << <<"Y">> >> }

\* data['recordings'], flattened to the releases of the recordings found.
RecordingReleaseBodies ==
    { <<>>,
      << [primary |-> <<"A","l","b","u","m">>, secondary |-> {<<"L","i","v","e">>},
          title |-> <<"L">>] >>,
      << [primary |-> <<"A","l","b","u","m">>, secondary |-> {<<"L","i","v","e">>},
          title |-> <<"L">>],
         [primary |-> <<"A","l","b","u","m">>, secondary |-> {}, title |-> <<"Y">>] >> }

\* data['recordings'] of a recording search: title, the name of the first
\* artist credit and the title of the first release (NoneV: key absent).
RecordingBodies ==
    { <<>>,
      << [title |-> <<"B","b">>, credit |-> <<"A","a">>, release |-> <<"Y">>] >>,
      << [title |-> NoneV, credit |-> NoneV, release |-> NoneV] >> }

\* data['releases'] of a release search: whether the first release has an id.
ReleaseBodies == { <<>>, << [has_id |-> TRUE] >>, << [has_id |-> FALSE] >> }

\* The body of a release lookup: the track titles of its media, the name of
\* its first artist credit, its title.
ReleaseTrackBodies ==
    { [tracks |-> <<>>, credit |-> <<"A","a">>, title |-> <<"Y">>],
      [tracks |-> << <<"T">>, <<"U">> >>, credit |-> <<"A","a">>, title |-> <<"Y">>] }

NoTracks == [tracks |-> <<>>, credit |-> <<>>, title |-> <<>>]

\* The requests: kind is the endpoint and query, base the base URL.
Replies(kind) ==
    { [status |-> st, body |-> IF kind = "tracks" THEN NoTracks ELSE <<>>] :
          st \in FailureStatuses }
    \cup
    { Ok(b) : b \in CASE kind \in {"studio", "rg"} -> ReleaseGroupBodies
                      [] kind = "rec"    -> RecordingReleaseBodies
                      [] kind = "track"  -> RecordingBodies
                      [] kind = "album"  -> ReleaseBodies
                      [] kind = "tracks" -> ReleaseTrackBodies }

NoCall == [kind |-> "none", base |-> "none"]

(***************************************************************************)
(* MusicTrack of music_utils.py (track, artist, album) and of              *)
(* youtube_music_processor.py (six fields), as the dicts to_dict returns.  *)
(***************************************************************************)
MusicTrack3(track, artist, album) ==
    [c \in H3 |-> CASE c = "track" -> track [] c = "artist" -> artist [] c = "album" -> album]

TrackCols == {"title", "artist", "track", "album", "uploader", "duration"}

MusicTrack6(title, artist, track, album, uploader, duration) ==
    [c \in TrackCols |->
        CASE c = "title" -> title [] c = "artist" -> artist [] c = "track" -> track
          [] c = "album" -> album [] c = "uploader" -> uploader [] c = "duration" -> duration]

\* CSVManager.load_tracks, one row.
load_track(row) ==
    MusicTrack6(Get(row, "title"), Get(row, "artist"), Get(row, "track"),
                Get(row, "album"), Get(row, "uploader"), Get(row, "duration"))

\* MetadataEnhancer.is_english_content of music_pipeline.py
CountLatin(text) == Cardinality({i \in 1..Len(text) : Ord(text[i]) < 256})

is_english_content(text) ==
    text # <<>> /\ CountLatin(text) >= Len(text) - CountLatin(text)

\* MetadataEnhancer.is_english_content of youtube_music_processor.py
\* (latin_chars >= total_chars * 0.7)
is_english_content_ymp(text) ==
    text # <<>> /\ 10 * CountLatin(text) >= 7 * Len(text)

(***************************************************************************)
(* One row of a batch: what happens before the first request, what each    *)
(* reply leads to, and what the row leaves behind.                         *)
(***************************************************************************)
\* The row is not finished: `call` is the next request, preceded by the
\* rate limiter when `limit`.
Go(call, limit) ==
    [fin |-> FALSE, raised |-> FALSE, call |-> call, limit |-> limit,
     rows |-> <<>>, succ |-> 0, fail |-> 0, albums |-> 0]

\* The row is finished: the rows appended and what is added to the tallies.
Fin(rows, succ, fail, albums) ==
    [fin |-> TRUE, raised |-> FALSE, call |-> NoCall, limit |-> FALSE,
     rows |-> rows, succ |-> succ, fail |-> fail, albums |-> albums]

\* A handler that appends the entry without counting it.
Raised_uncounted(entry) ==
    [fin |-> TRUE, raised |-> TRUE, call |-> NoCall, limit |-> FALSE,
     rows |-> <<entry>>, succ |-> 0, fail |-> 0, albums |-> 0]

\* The row raised out of the per-row code into `except Exception` of the
\* loop: the entry is appended as it is and counted as failed.
Raised(entry) ==
    [fin |-> TRUE, raised |-> TRUE, call |-> NoCall, limit |-> FALSE,
     rows |-> <<entry>>, succ |-> 0, fail |-> 1, albums |-> 0]

Https(kind) == [kind |-> kind, base |-> "https"]

Http(kind) == [kind |-> kind, base |-> "http"]

Slash == <<" ", "/", " ">>

\* f"{existing_album} / {studio_album}"
Combined(existing, studio) == existing \o Slash \o studio

\* ---- StudioAlbumFinder.py ----
\* StudioAlbumFinder.process_entry up to the lookup.
saf_begin(entry) ==
    IF Get(entry, "track") = NoneV \/ Get(entry, "artist") = NoneV
       \/ Get(entry, "album") = NoneV
    THEN Raised(entry)
    ELSE IF Strip(Get(entry, "track")) = <<>> \/ Strip(Get(entry, "artist")) = <<>>
    THEN Fin(<<entry>>, 0, 0, 0)
    ELSE Go(Https("rg"), TRUE)

\* A process_entry that writes the (empty) result of the lookup into the
\* album of a row whose lookup failed.
saf_finish_blank(entry, studio_album) ==
    IF Truthy(studio_album)
    THEN Fin(<<Put(entry, "album", studio_album)>>, 1, 0, 0)
    ELSE Fin(<<Put(entry, "album", <<>>)>>, 0, 1, 0)

\* StudioAlbumFinder.process_entry from the result of the lookup on.
saf_finish(entry, studio_album) ==
    LET existing_album == Strip(Get(entry, "album"))
    IN  IF Truthy(studio_album)
        THEN Fin(<<Put(entry, "album",
                       IF existing_album # <<>>
                       THEN IF Lower(studio_album) # Lower(existing_album)
                            THEN Combined(existing_album, studio_album)
                            ELSE existing_album
                       ELSE studio_album)>>, 1, 0, 0)
        ELSE Fin(<<entry>>, 0, 1, 0)

\* The first release of the recordings that is a studio album with a title.
IsStudioRelease(rel) ==
    /\ Lower(rel.primary) = <<"a","l","b","u","m">>
    /\ \A t \in rel.secondary :
          Lower(t) \notin {<<"l","i","v","e">>, <<"c","o","m","p","i","l","a","t","i","o","n">>,
                           <<"s","o","u","n","d","t","r","a","c","k">>}
    /\ rel.title # <<>>

FirstStudioTitle(body) ==
    IF \E i \in 1..Len(body) : IsStudioRelease(body[i])
    THEN body[CHOOSE i \in 1..Len(body) :
                  IsStudioRelease(body[i]) /\ \A h \in 1..(i - 1) : ~IsStudioRelease(body[h])].title
    ELSE NoneV

\* StudioAlbumFinder.search_musicbrainz_for_studio_album: where one reply
\* leads.  An exception leaves the `try` for the next base URL.
saf_next_base(entry, call) ==
    IF call.base = "https" THEN Go(Http("rg"), FALSE) ELSE saf_finish(entry, NoneV)

saf_reply(entry, call, reply) ==
    IF reply.status \in {"error", "badjson"} THEN saf_next_base(entry, call)
    ELSE IF call.kind = "rg"
    THEN IF reply.status = "ok" /\ reply.body # <<>> /\ reply.body[1] # <<>>
         THEN saf_finish(entry, reply.body[1])
         ELSE Go([kind |-> "rec", base |-> call.base], FALSE)
    ELSE IF reply.status = "ok" /\ FirstStudioTitle(reply.body) # NoneV
         THEN saf_finish(entry, FirstStudioTitle(reply.body))
         ELSE saf_next_base(entry, call)

\* ---- MusicBrainzAPI._make_request (music_utils.py and
\* youtube_music_processor.py) ----
\* What _make_request does after the reply to the request `call`: it
\* returns (done, with the data or None), or goes on to the fallback URL.
\* A _make_request that tries the fallback URL until it answers.
make_request_retry(call, reply) == reply.status = "ok"

make_request_done(call, reply) == reply.status = "ok" \/ call.base = "http"

\* A _make_request that returns the body of whatever came back, parsed or
\* not.
make_request_data_unchecked(call, reply) ==
    [ok |-> reply.status # "error", body |-> reply.body]

make_request_data(call, reply) == [ok |-> reply.status = "ok", body |-> reply.body]

\* One call of _make_request for the endpoint `kind`, replies[i] what the
\* i-th base URL comes back with if it is asked and `sent` the requests
\* sent so far: the requests it sends and the data it returns (ok FALSE:
\* None).
RECURSIVE make_request_from(_, _, _)
make_request_from(kind, replies, sent) ==
    LET next == IF sent = <<>> THEN Https(kind) ELSE Http(kind)
        reply == replies[Len(sent) + 1]
    IN  IF make_request_done(next, reply)
        THEN [sent |-> Append(sent, next), data |-> make_request_data(next, reply)]
        ELSE make_request_from(kind, replies, Append(sent, next))

\* ---- music_pipeline.py, StudioAlbumFinder ----
\* The body of the loop of process_csv up to the lookup.
mp_studio_begin(entry) ==
    IF Get(entry, "track") = NoneV \/ Get(entry, "artist") = NoneV
       \/ Get(entry, "album") = NoneV
    THEN Raised(entry)
    ELSE IF Strip(Get(entry, "track")) # <<>> /\ Strip(Get(entry, "artist")) # <<>>
    THEN Go(Https("studio"), TRUE)
    ELSE Fin(<<entry>>, 0, 1, 0)

\* StudioAlbumFinder.find_studio_album, from the data of the request on.
find_studio_album(data) ==
    IF data.ok /\ data.body # <<>> THEN data.body[1] ELSE NoneV

\* A loop body that drops the row whose lookup found nothing.
mp_studio_finish_skip(entry, studio_album) ==
    IF Truthy(studio_album)
    THEN Fin(<<Put(entry, "album", studio_album)>>, 1, 0, 0)
    ELSE Fin(<<>>, 0, 1, 0)

\* The body of the loop of process_csv from the result of the lookup on.
mp_studio_finish(entry, studio_album) ==
    LET existing_album == Strip(Get(entry, "album"))
    IN  IF Truthy(studio_album)
        THEN Fin(<<IF existing_album # <<>> /\ Lower(studio_album) # Lower(existing_album)
                   THEN Put(entry, "album", Combined(existing_album, studio_album))
                   ELSE IF existing_album = <<>>
                   THEN Put(entry, "album", studio_album)
                   ELSE entry>>, 1, 0, 0)
        ELSE Fin(<<entry>>, 0, 1, 0)

\* ---- music_pipeline.py, MetadataEnhancer ----
\* parse_title on the titles of the input rows, evaluated once.
InputTitles == {r.title : r \in BaseRows} \cup {sTitleAB}

ParsedTitle == [t \in InputTitles |-> parse_title(t)]

\* parse_title and `if not parsed['artist'] and existing_artist`
parsed_entry(entry) ==
    LET parsed == ParsedTitle[Get(entry, "title")]
        existing_artist == Strip(Get(entry, "artist"))
    IN  IF parsed.artist = <<>> /\ existing_artist # <<>>
        THEN [parsed EXCEPT !.artist = existing_artist]
        ELSE parsed

\* The row returned `if no enhancement found`.
mp_enhance_failed(parsed) ==
    Fin(<<MusicTrack3(parsed.track, parsed.artist, <<>>)>>, 0, 1, 0)

\* MetadataEnhancer.enhance_entry from `if not parsed['artist']` up to the
\* lookup, parsed the parsed title.
mp_enhance_parsed(entry, parsed) ==
    IF parsed.artist = <<>>
    THEN Fin(<<MusicTrack3(Get(entry, "title"), <<>>, <<>>)>>, 0, 1, 0)
    ELSE IF ~is_english_content(parsed.artist) /\ ~is_english_content(parsed.track)
    THEN mp_enhance_failed(parsed)
    ELSE IF parsed.is_full_album
    THEN Go(Https("album"), TRUE)
    ELSE Go(Https("track"), TRUE)

\* MetadataEnhancer.enhance_entry up to the lookup.
mp_enhance_begin(entry) ==
    IF Get(entry, "artist") = NoneV THEN Raised(entry)
    ELSE IF ~Truthy(Get(entry, "title"))
    THEN Fin(<<MusicTrack3(Get(entry, "title"), Strip(Get(entry, "artist")), <<>>)>>, 0, 0, 0)
    ELSE mp_enhance_parsed(entry, parsed_entry(entry))

\* MetadataEnhancer.enhance_entry from the data of a request on, parsed the
\* parsed title.
mp_enhance_found(parsed, kind, data) ==
    CASE kind = "track" ->
           IF data.ok /\ data.body # <<>>
           THEN LET recording == data.body[1]
                IN  Fin(<<MusicTrack3(
                            IF recording.title # NoneV THEN recording.title ELSE parsed.track,
                            IF recording.credit # NoneV THEN recording.credit ELSE parsed.artist,
                            IF recording.release # NoneV THEN recording.release ELSE <<>>)>>,
                        1, 0, 0)
           ELSE mp_enhance_failed(parsed)
      [] kind = "album" ->
           IF data.ok /\ data.body # <<>> /\ data.body[1].has_id
           THEN Go(Https("tracks"), TRUE)
           ELSE mp_enhance_failed(parsed)
      [] kind = "tracks" ->
           IF data.ok /\ data.body.tracks # <<>>
           THEN Fin([i \in 1..Len(data.body.tracks) |->
                        MusicTrack3(data.body.tracks[i], data.body.credit,
                                    data.body.title)], 1, 0, 1)
           ELSE mp_enhance_failed(parsed)

mp_enhance_data(entry, kind, data) == mp_enhance_found(parsed_entry(entry), kind, data)

\* ---- youtube_music_processor.py, MetadataEnhancer ----
\* MetadataEnhancer.enhance_track up to the lookup.  TitleParser.parse_title
\* is called inside the `try` and only its is_full_album is used.
ymp_enhance_begin(track) ==
    IF ~Truthy(track["artist"]) \/ ~Truthy(track["track"]) THEN Fin(<<track>>, 0, 0, 0)
    ELSE IF ~is_english_content_ymp(track["artist"]) \/ ~is_english_content_ymp(track["track"])
    THEN Fin(<<track>>, 0, 0, 0)
    ELSE IF track["title"] = NoneV THEN Fin(<<track>>, 0, 1, 0)
    ELSE IF IsFullAlbum(track["title"])
    THEN Go(Https("album"), TRUE)
    ELSE Go(Https("track"), TRUE)

\* MetadataEnhancer.enhance_track from the data of a request on.
ymp_enhance_data(track, kind, data) ==
    CASE kind = "track" ->
           IF data.ok /\ data.body # <<>>
           THEN LET recording == data.body[1]
                IN  Fin(<<MusicTrack6(
                            track["title"],
                            IF recording.credit # NoneV THEN recording.credit ELSE track["artist"],
                            IF recording.title # NoneV THEN recording.title ELSE track["track"],
                            IF recording.release # NoneV THEN recording.release ELSE <<>>,
                            track["uploader"], track["duration"])>>, 1, 0, 0)
           ELSE Fin(<<track>>, 0, 1, 0)
      [] kind = "album" ->
           IF data.ok /\ data.body # <<>> /\ data.body[1].has_id
           THEN Go(Https("tracks"), TRUE)
           ELSE Fin(<<track>>, 0, 1, 0)
      [] kind = "tracks" ->
           IF data.ok /\ data.body.tracks # <<>>
           THEN Fin([i \in 1..Len(data.body.tracks) |->
                        MusicTrack6(<<>>, data.body.credit, data.body.tracks[i],
                                    data.body.title, <<>>, <<>>)], 1, 0, 1)
           ELSE Fin(<<track>>, 0, 1, 0)

\* ---- youtube_music_processor.py, StudioAlbumFinder ----
\* A loop body that builds the new track with the studio album as its title
\* too.
ymp_studio_row_retitled(track, studio_album) ==
    LET new_track == [track EXCEPT !["album"] = studio_album, !["title"] = studio_album]
    IN  IF Truthy(studio_album) /\ studio_album # track["album"]
        THEN Fin(<<new_track>>, 1, 0, 0)
        ELSE Fin(<<new_track>>, 0, 1, 0)

\* StudioAlbumFinder.find_studio_album up to the lookup; the body of the
\* loop of process_tracks with studio_album the result of find_studio_album.
ymp_studio_row(track, studio_album) ==
    LET original_album == track["album"]
        album == IF Truthy(original_album) /\ Truthy(studio_album)
                    /\ Lower(original_album) # Lower(studio_album)
                 THEN Combined(original_album, studio_album)
                 ELSE studio_album
        new_track == [track EXCEPT !["album"] = album]
    IN  IF Truthy(studio_album) /\ studio_album # original_album
        THEN Fin(<<new_track>>, 1, 0, 0)
        ELSE Fin(<<new_track>>, 0, 1, 0)

ymp_studio_begin(track) ==
    IF ~Truthy(track["artist"]) \/ ~Truthy(track["track"])
    THEN ymp_studio_row(track, track["album"])
    ELSE Go(Https("studio"), TRUE)

\* StudioAlbumFinder.find_studio_album from the data of the request on.
ymp_find_studio_album(track, data) ==
    IF data.ok /\ data.body # <<>> /\ data.body[1] # <<>>
    THEN data.body[1]
    ELSE track["album"]

(***************************************************************************)
(* The five batches side by side.                                          *)
(***************************************************************************)
\* The element of the list the loop runs over: the dict of csv.DictReader,
\* or the MusicTrack of CSVManager.load_tracks.
Entry(c, row) == IF IsYmp(c) THEN load_track(row) ELSE row

\* The per-row code up to its first request.
BeginOf(c, entry) ==
    CASE c = "saf"         -> saf_begin(entry)
      [] c = "mp_studio"   -> mp_studio_begin(entry)
      [] c = "mp_enhance"  -> mp_enhance_begin(entry)
      [] c = "ymp_enhance" -> ymp_enhance_begin(entry)
      [] c = "ymp_studio"  -> ymp_studio_begin(entry)

\* The per-row code from the reply to the request `call` on.
ReplyOf(c, entry, call, reply) ==
    IF c = "saf" THEN saf_reply(entry, call, reply)
    ELSE IF ~make_request_done(call, reply) THEN Go(Http(call.kind), FALSE)
    ELSE LET data == make_request_data(call, reply)
         IN  CASE c = "mp_studio"   -> mp_studio_finish(entry, find_studio_album(data))
               [] c = "mp_enhance"  -> mp_enhance_data(entry, call.kind, data)
               [] c = "ymp_enhance" -> ymp_enhance_data(entry, call.kind, data)
               [] c = "ymp_studio"  ->
                      ymp_studio_row(entry, ymp_find_studio_album(entry, data))

(***************************************************************************)
(* The state of one run of a batch command.                                *)
(***************************************************************************)
VARIABLES
    cmd,          \* the command that runs
    header,       \* the header row of the input file
    input,        \* the rows of the input file, as csv.DictReader returns them
    pc,           \* where the run is: read, loop, call, post, sort, write, done
    idx,          \* the number of rows the loop has finished
    call,         \* at pc = "call": the request about to be sent
    out,          \* enhanced_tracks / enhanced_data / result_tracks
    stats,        \* the tallies: successful, failed, albums_expanded
    rowlog,       \* per finished row: what it appended and tallied
    reqs,         \* the requests sent for the row whose iteration is running
    file,         \* the output file
    result,       \* what the step returned: none, True, False, crash
    interrupted,  \* the KeyboardInterrupt of the run: no, caught (by the loop) or
                  \* propagated (out of the step)
    elapsed,      \* time.time() - last_request_time, up to RateLimit
    sinceSend     \* the time since the last request was sent, up to RateLimit

(***************************************************************************)
(* One call of a function of the scripts on its own: the function, its     *)
(* argument and what it returned.                                          *)
(***************************************************************************)
VARIABLES
    fn,           \* the function called, "none" outside such a call
    arg,          \* its argument
    ret           \* a record of what it returned, Pending before it returns

callVars == <<fn, arg, ret>>

(***************************************************************************)
(* One run of main() of a script: the command line, the files on disk and  *)
(* what the run asked, ran and wrote.                                      *)
(***************************************************************************)
VARIABLES
    prog,         \* the script: mp (music_pipeline.py), ymp
                  \* (youtube_music_processor.py), saf, ms, me, ypm
    command,      \* args.command
    args,         \* the flags skip_enhance, skip_studio, keep_intermediate
    disk,         \* the files that exist
    asked,        \* the overwrite prompts and the responses typed
    steps,        \* the steps started so far, each with its outcome
    writes,       \* the files opened for writing, in order
    mainpc,       \* where main() is: confirm, a step, done
    returned      \* what main() returned: none, True, False, crash

mainVars == <<prog, command, args, disk, asked, steps, writes, mainpc, returned>>

(***************************************************************************)
(* One run of the Spotify importer (YoutubePlaylistToSpotify.py).          *)
(***************************************************************************)
VARIABLES
    folder,       \* the CSV files of ./playlists/ as they are on disk, in the
                  \* order of os.listdir: name and lines
    folder0,      \* the same files as they were when the run started
    playlists,    \* youtube_playlists: name and songs of the files read so far
    spc,          \* where the run is: read, import, done, crashed
    cur,          \* the playlist being imported and the songs of it done
    created,      \* the names of the playlists created on Spotify
    added,        \* the calls of playlist_add_items: playlist and track id
    failed_songs, \* failed_songs of each playlist created
    raisedAt      \* the songs for which the search or the add raised

spotVars == <<folder, folder0, playlists, spc, cur, created, added, failed_songs,
              raisedAt>>

\* The state outside the run of a batch command, outside the call of a single
\* function, outside the run of main(), outside the run of the importer.
outsideBatch == <<callVars, mainVars, spotVars>>

batchVars == <<cmd, header, input, pc, idx, call, out, stats, rowlog, reqs, file,
               result, interrupted, elapsed, sinceSend>>

outsideCall == <<batchVars, mainVars, spotVars>>

outsideMain == <<batchVars, callVars, spotVars>>

outsideSpotify == <<batchVars, callVars, mainVars>>

vars == <<batchVars, outsideBatch>>

Pending == [pending |-> TRUE]

\* No function is called on its own.
NoCallAlone == fn = "none" /\ arg = <<>> /\ ret = Pending

NoFlags == [skip_enhance |-> FALSE, skip_studio |-> FALSE, keep_intermediate |-> FALSE]

\* The importer does not run.
NoSpotify ==
    /\ folder = <<>>
    /\ folder0 = <<>>
    /\ playlists = <<>>
    /\ spc = "done"
    /\ cur = [pl |-> 0, song |-> 0]
    /\ created = <<>>
    /\ added = <<>>
    /\ failed_songs = <<>>
    /\ raisedAt = <<>>

\* No main() runs.
NoMain ==
    /\ prog = "none"
    /\ command = "none"
    /\ args = NoFlags
    /\ disk = {}
    /\ asked = <<>>
    /\ steps = <<>>
    /\ writes = <<>>
    /\ mainpc = "done"
    /\ returned = "none"

NoFile == [exists |-> FALSE, header |-> {}, rows |-> <<>>]

Min(a, b) == IF a < b THEN a ELSE b

\* The start of a run whose output file is f.
InitOn(f) ==
    /\ cmd \in Cmds
    /\ header \in Headers
    /\ input \in SeqsUpTo(RowsFor(header), MaxRows)
    /\ pc = "read"
    /\ idx = 0
    /\ call = NoCall
    /\ out = <<>>
    /\ stats = [successful |-> 0, failed |-> 0, albums_expanded |-> 0]
    /\ rowlog = <<>>
    /\ reqs = <<>>
    /\ file = f
    /\ result = "none"
    /\ interrupted = "no"
    /\ elapsed = RateLimit
    /\ sinceSend = RateLimit
    /\ NoCallAlone
    /\ NoMain
    /\ NoSpotify

\* A run that finds no output file.
Init == InitOn(NoFile)

\* An output file left by an earlier run.
OldFile ==
    [exists |-> TRUE, header |-> H3,
     rows |-> <<MusicTrack3(<<"o">>, <<"o">>, <<"o">>)>>]

\* A run that finds no output file or the one of an earlier run.
InitOutput == \E f \in {NoFile, OldFile} : InitOn(f)

\* The columns a command requires of its input file.
RequiredColumns(c) ==
    CASE c \in {"saf", "mp_studio"} -> {"track", "artist"}
      [] c = "mp_enhance"           -> {"title"}
      [] c \in {"ms_sort", "mp_sort"} -> {"artist"}
      [] OTHER                      -> {}

\* Reading the input file: CSVProcessor.read_csv and
\* validate_required_columns, the head of StudioAlbumFinder.process_csv,
\* CSVManager.load_tracks.
ReadInput ==
    /\ pc = "read"
    /\ IF ~IsYmp(cmd) /\ (input = <<>> \/ ~(RequiredColumns(cmd) \subseteq header))
       THEN pc' = "done" /\ result' = "False"
       ELSE pc' = (IF cmd \in SortCmds THEN "sort" ELSE "loop") /\ result' = result
    /\ UNCHANGED <<cmd, header, input, idx, call, out, stats, rowlog, reqs, file,
                   interrupted, elapsed, sinceSend>>
    /\ UNCHANGED outsideBatch

\* MusicBrainzAPI._rate_limit_request / _rate_limit on the clocks <<elapsed,
\* sinceSend>>: sleeps for what is missing to the rate limit and restarts
\* last_request_time.
rate_limit_request(clocks) ==
    LET wait == IF clocks[1] < RateLimit THEN RateLimit - clocks[1] ELSE 0
    IN  <<0, Min(RateLimit, clocks[2] + wait)>>

\* time.sleep(self.rate_limit) of StudioAlbumFinder.process_entry
sleep_rate_limit(clocks) == <<clocks[1], Min(RateLimit, clocks[2] + RateLimit)>>

\* The clocks after the wait that precedes a request of command c.
Limited(c, clocks) ==
    IF c = "saf" THEN sleep_rate_limit(clocks) ELSE rate_limit_request(clocks)

\* The clocks d seconds later.
Later(clocks, d) == <<Min(RateLimit, clocks[1] + d), Min(RateLimit, clocks[2] + d)>>

\* StudioAlbumFinder.py keeps no last_request_time.
HasLastRequestTime(c) == c # "saf"

\* A row is finished with the outcome r: the rows are appended, the tallies
\* updated.  A row that raised is finished by the handler of the loop, the
\* others go on to pbar.set_postfix.
FinishRow(r, ok) ==
    /\ out' = out \o r.rows
    /\ stats' = [successful |-> stats.successful + r.succ,
                 failed |-> stats.failed + r.fail,
                 albums_expanded |-> stats.albums_expanded + r.albums]
    /\ rowlog' = Append(rowlog, [rows |-> r.rows, succ |-> r.succ, fail |-> r.fail,
                                 raised |-> r.raised, looked |-> reqs' # <<>>,
                                 ok |-> ok])
    /\ idx' = idx + 1
    /\ call' = NoCall
    /\ pc' = IF r.raised THEN "loop" ELSE "post"

\* The loop takes the next row and runs it up to its first request.
BeginRow ==
    /\ pc = "loop"
    /\ idx < Len(input)
    /\ reqs' = <<>>
    /\ \E r \in {BeginOf(cmd, Entry(cmd, input[idx + 1]))} :
         \E limited \in {Limited(cmd, <<elapsed, sinceSend>>)} :
           IF r.fin
           THEN FinishRow(r, FALSE) /\ UNCHANGED <<elapsed, sinceSend>>
           ELSE /\ pc' = "call"
                /\ call' = r.call
                /\ elapsed' = limited[1]
                /\ sinceSend' = limited[2]
                /\ UNCHANGED <<out, stats, rowlog, idx>>
    /\ UNCHANGED <<cmd, header, input, file, result, interrupted>>
    /\ UNCHANGED outsideBatch

\* One HTTP request: it is sent, takes d seconds and comes back with reply.
HttpGet(reply, d) ==
    /\ pc = "call"
    /\ reqs' = Append(reqs, call)
    /\ \E r \in {ReplyOf(cmd, Entry(cmd, input[idx + 1]), call, reply)} :
         \E clocks \in {Later(<<IF HasLastRequestTime(cmd) THEN elapsed ELSE RateLimit, 0>>, d)} :
           IF r.fin
           THEN FinishRow(r, reply.status = "ok") /\ elapsed' = clocks[1] /\ sinceSend' = clocks[2]
           ELSE \E next \in {IF r.limit THEN Limited(cmd, clocks) ELSE clocks} :
                /\ pc' = "call"
                /\ call' = r.call
                /\ elapsed' = next[1]
                /\ sinceSend' = next[2]
                /\ UNCHANGED <<out, stats, rowlog, idx>>
    /\ UNCHANGED <<cmd, header, input, file, result, interrupted>>
    /\ UNCHANGED outsideBatch

\* pbar.set_postfix at the end of the `try` of the loop.
PostRow ==
    /\ pc = "post"
    /\ pc' = "loop"
    /\ reqs' = <<>>
    /\ UNCHANGED <<cmd, header, input, idx, call, out, stats, rowlog, file, result,
                   interrupted, elapsed, sinceSend>>
    /\ UNCHANGED outsideBatch

\* The loop has run over every row.
EndLoop ==
    /\ pc = "loop"
    /\ idx = Len(input)
    /\ pc' = "write"
    /\ UNCHANGED <<cmd, header, input, idx, call, out, stats, rowlog, reqs, file, result,
                   interrupted, elapsed, sinceSend>>
    /\ UNCHANGED outsideBatch

\* A handler of the loop that goes on with the next row instead of
\* leaving the loop.
Interrupt_continue(caught) ==
    /\ interrupted = "no"
    /\ IF caught
       THEN /\ pc \in {"call", "post"} \/ (pc = "loop" /\ idx < Len(input))
            /\ pc' = "loop"
            /\ result' = result
       ELSE /\ pc \in {"read", "loop", "write"}
            /\ pc' = "done"
            /\ result' = IF IsYmp(cmd) THEN "False" ELSE "crash"
    /\ interrupted' = (IF caught THEN "caught" ELSE "propagated")
    /\ call' = NoCall
    /\ UNCHANGED <<cmd, header, input, idx, out, stats, rowlog, reqs, file,
                   elapsed, sinceSend>>
    /\ UNCHANGED outsideBatch

\* KeyboardInterrupt.  Raised inside the `try` of the loop (during the
\* per-row code, a sleep, a request or set_postfix) it is caught by
\* `except KeyboardInterrupt: break`; raised anywhere else it leaves the
\* step: main of youtube_music_processor.py catches it and returns False,
\* the other scripts end with the traceback.
Interrupt(caught) ==
    /\ interrupted = "no"
    /\ IF caught
       THEN /\ pc \in {"call", "post"} \/ (pc = "loop" /\ idx < Len(input))
            /\ pc' = "write"
            /\ result' = result
       ELSE /\ pc \in {"read", "loop", "write"}
            /\ pc' = "done"
            /\ result' = IF IsYmp(cmd) THEN "False" ELSE "crash"
    /\ interrupted' = (IF caught THEN "caught" ELSE "propagated")
    /\ call' = NoCall
    /\ UNCHANGED <<cmd, header, input, idx, out, stats, rowlog, reqs, file,
                   elapsed, sinceSend>>
    /\ UNCHANGED outsideBatch

\* csv.DictWriter.writerows: a row with a key that is not a fieldname
\* raises ValueError; the rows before it are written.
Writable(row, fieldnames) == DOMAIN row \subseteq fieldnames

WrittenCount(rows, fieldnames) ==
    IF \E i \in 1..Len(rows) : ~Writable(rows[i], fieldnames)
    THEN (CHOOSE i \in 1..Len(rows) :
              ~Writable(rows[i], fieldnames)
              /\ \A h \in 1..(i - 1) : Writable(rows[h], fieldnames)) - 1
    ELSE Len(rows)

\* The line csv.DictWriter writes for a row: restval '' for a missing
\* key, '' for None.
WrittenRow(row, fieldnames) ==
    [c \in fieldnames |-> IF c \in DOMAIN row /\ row[c] # NoneV THEN row[c] ELSE <<>>]

\* An end of the step that opens the output file before it looks whether
\* there is anything to write.
WriteOutput_truncating ==
    /\ pc = "write"
    /\ pc' = "done"
    /\ IF out = <<>>
       THEN file' = [exists |-> TRUE, header |-> {}, rows |-> <<>>] /\ result' = "False"
       ELSE LET fieldnames == IF cmd = "ms_sort" THEN DOMAIN input[1] ELSE DOMAIN out[1]
                n == WrittenCount(out, fieldnames)
            IN  /\ file' = [exists |-> TRUE, header |-> fieldnames,
                            rows |-> [i \in 1..n |-> WrittenRow(out[i], fieldnames)]]
                /\ result' = IF n = Len(out) THEN "True" ELSE "False"
    /\ UNCHANGED <<cmd, header, input, idx, call, out, stats, rowlog, reqs,
                   interrupted, elapsed, sinceSend>>
    /\ UNCHANGED outsideBatch

\* The end of the step: `if enhanced_data:` write the csv file and return
\* True, else return False; an exception of the writer returns False.
\* (CSVProcessor.write_csv, the tail of StudioAlbumFinder.process_csv,
\* CSVManager.save_tracks.)
WriteOutput ==
    /\ pc = "write"
    /\ pc' = "done"
    /\ IF out = <<>>
       THEN file' = file /\ result' = "False"
       ELSE LET fieldnames == IF cmd = "ms_sort" THEN DOMAIN input[1] ELSE DOMAIN out[1]
                n == WrittenCount(out, fieldnames)
            IN  /\ file' = [exists |-> TRUE, header |-> fieldnames,
                            rows |-> [i \in 1..n |-> WrittenRow(out[i], fieldnames)]]
                /\ result' = IF n = Len(out) THEN "True" ELSE "False"
    /\ UNCHANGED <<cmd, header, input, idx, call, out, stats, rowlog, reqs,
                   interrupted, elapsed, sinceSend>>
    /\ UNCHANGED outsideBatch

(***************************************************************************)
(* The sort step.                                                          *)
(***************************************************************************)
\* Bound of the model: rows per file that is sorted.
MaxSortRows == 3

\* Rows of a file with the header track,artist,album.
SortInputRows ==
    { [artist |-> <<"a">>, album |-> <<"b">>, track |-> <<"t">>],
      [artist |-> <<" ", "A">>, album |-> <<"B">>, track |-> <<"T">>],
      [artist |-> <<"a">>, album |-> <<" ">>, track |-> <<"t">>],
      [artist |-> <<"a">>, album |-> <<>>, track |-> <<"s">>],
      [artist |-> <<"a">>, album |-> <<"a">>, track |-> <<"t">>],
      [artist |-> <<"a">>, album |-> <<" ", "b">>, track |-> <<" ", "T">>],
      [artist |-> <<"a">>, album |-> <<"b">>, track |-> <<"s">>],
      [artist |-> <<"B">>, album |-> <<>>, track |-> <<>>],
      ShortRow(H3), LongRow(H3) }

\* A sort_key that does not lower the case.
sort_key_cased(entry) ==
    LET artist == Strip(Get(entry, "artist"))
        album == Strip(Get(entry, "album"))
        track == Strip(Get(entry, "track"))
    IN  <<artist, IF album # <<>> THEN 0 ELSE 1, album, track>>

\* MusicSorter.sort_key: (artist, has_album, album_lower, track)
sort_key(entry) ==
    LET artist == Lower(Strip(Get(entry, "artist")))
        album == Strip(Get(entry, "album"))
        track == Lower(Strip(Get(entry, "track")))
        has_album == IF album # <<>> THEN 0 ELSE 1
        album_lower == IF album # <<>> THEN Lower(album) ELSE <<>>
    IN  <<artist, has_album, album_lower, track>>

\* sort_key of CSVManager.sort_tracks: lower() before strip()
sort_key_track(track) ==
    LET artist == Strip(Lower(track["artist"]))
        album == Strip(track["album"])
        track_name == Strip(Lower(track["track"]))
        has_album == IF album # <<>> THEN 0 ELSE 1
        album_lower == IF album # <<>> THEN Lower(album) ELSE <<>>
    IN  <<artist, has_album, album_lower, track_name>>

\* .strip() on None: AttributeError
KeyRaises(entry) == \E col \in {"artist", "album", "track"} : Get(entry, col) = NoneV

KeyOf(c, entry) == IF c = "ymp_sort" THEN sort_key_track(entry) ELSE sort_key(entry)

\* k1 < k2 on the tuples sort_key returns
KeyLess(k1, k2) ==
    \/ StrLess(k1[1], k2[1])
    \/ k1[1] = k2[1] /\ k1[2] < k2[2]
    \/ k1[1] = k2[1] /\ k1[2] = k2[2] /\ StrLess(k1[3], k2[3])
    \/ k1[1] = k2[1] /\ k1[2] = k2[2] /\ k1[3] = k2[3] /\ StrLess(k1[4], k2[4])

\* An insertion that puts the element before the elements of equal key.
Insert_before_equal(order, i, keys) ==
    LET p == Cardinality({j \in 1..Len(order) : KeyLess(keys[order[j]], keys[i])})
    IN  SubSeq(order, 1, p) \o <<i>> \o SubSeq(order, p + 1, Len(order))

\* The built-in sorted() is stable: the element i goes behind the elements
\* of the sorted `order` whose key is not greater.
Insert(order, i, keys) ==
    LET p == Cardinality({j \in 1..Len(order) : ~KeyLess(keys[i], keys[order[j]])})
    IN  SubSeq(order, 1, p) \o <<i>> \o SubSeq(order, p + 1, Len(order))

RECURSIVE SortedOrder(_, _)
SortedOrder(keys, n) ==
    IF n = 0 THEN <<>> ELSE Insert(SortedOrder(keys, n - 1), n, keys)

\* sorted(data, key=sort_key) of command c
sorted(c, data) ==
    LET keys == [i \in 1..Len(data) |-> KeyOf(c, data[i])]
        order == SortedOrder(keys, Len(data))
    IN  [p \in 1..Len(data) |-> data[order[p]]]

\* The sort of the rows read: an exception of sort_key ends MusicSorter.py
\* with the traceback, the other two catch it and return False.
SortData ==
    /\ pc = "sort"
    /\ \E data \in {[i \in 1..Len(input) |-> Entry(cmd, input[i])]} :
         IF \E i \in 1..Len(data) : KeyRaises(data[i])
         THEN /\ pc' = "done"
              /\ result' = (IF cmd = "ms_sort" THEN "crash" ELSE "False")
              /\ out' = out
         ELSE /\ pc' = "write"
              /\ result' = result
              /\ out' = sorted(cmd, data)
    /\ UNCHANGED <<cmd, header, input, idx, call, stats, rowlog, reqs, file,
                   interrupted, elapsed, sinceSend>>
    /\ UNCHANGED outsideBatch

InitSort ==
    /\ cmd \in SortCmds
    /\ header = H3
    /\ input \in SeqsUpTo(SortInputRows, MaxSortRows)
    /\ pc = "read"
    /\ idx = 0
    /\ call = NoCall
    /\ out = <<>>
    /\ stats = [successful |-> 0, failed |-> 0, albums_expanded |-> 0]
    /\ rowlog = <<>>
    /\ reqs = <<>>
    /\ file = NoFile
    /\ result = "none"
    /\ interrupted = "no"
    /\ elapsed = RateLimit
    /\ sinceSend = RateLimit
    /\ NoCallAlone
    /\ NoMain
    /\ NoSpotify

NextSort ==
    \/ ReadInput
    \/ SortData
    \/ WriteOutput

SpecSort == InitSort /\ [][NextSort]_vars

Next ==
    \/ ReadInput
    \/ BeginRow
    \/ \E kind \in {"studio", "rg", "rec", "track", "album", "tracks"} :
          \E reply \in Replies(kind), d \in 0..MaxDur :
              call.kind = kind /\ HttpGet(reply, d)
    \/ PostRow
    \/ EndLoop
    \/ \E caught \in BOOLEAN : Interrupt(caught)
    \/ WriteOutput

Spec == Init /\ [][Next]_vars

\* The batch steps with or without an output file of an earlier run.
SpecOutput == InitOutput /\ [][Next]_vars

(***************************************************************************)
(* MetadataEnhancer.py: the choice of the best recording and of the best   *)
(* release among the candidates of a MusicBrainz reply.  A release is the  *)
(* record of its title, the primary-type of its release-group, its date    *)
(* and its country ("" and <<>> for a key that is missing); a recording is *)
(* its title and its releases.  A candidate is returned as its position in *)
(* the list, None as 0.                                                    *)
(***************************************************************************)
\* int(date[:4]) for a date of four characters or more; -1 when it raises
\* (one of the four is not a digit), which the bare `except` swallows.
YearOf(date) ==
    LET Digits == <<"0", "1", "2", "3", "4", "5", "6", "7", "8", "9">>
        IsDigit(c) == \E i \in 1..Len(Digits) : Digits[i] = c
        DigitValue(c) == (CHOOSE i \in 1..Len(Digits) : Digits[i] = c) - 1
    IN  IF \A i \in 1..4 : IsDigit(date[i])
        THEN 1000 * DigitValue(date[1]) + 100 * DigitValue(date[2])
             + 10 * DigitValue(date[3]) + DigitValue(date[4])
        ELSE 0 - 1

\* The words the scoring looks for.
Keywords ==
    [live |-> <<"l","i","v","e">>,
     compilation |-> <<"c","o","m","p","i","l","a","t","i","o","n">>,
     greatest_hits |-> <<"g","r","e","a","t","e","s","t"," ","h","i","t","s">>,
     best_of |-> <<"b","e","s","t"," ","o","f">>,
     collection |-> <<"c","o","l","l","e","c","t","i","o","n">>,
     remix |-> <<"r","e","m","i","x">>,
     demo |-> <<"d","e","m","o">>,
     bootleg |-> <<"b","o","o","t","l","e","g">>,
     album |-> <<"a","l","b","u","m">>]

\* The score find_best_release gives a release.
release_score(release) ==
    LET title == Lower(release.title)
        primary_type == Lower(release.primary_type)
        date == release.date
        year == IF date # <<>> /\ Len(date) >= 4 THEN YearOf(date) ELSE 0 - 1
    IN  (IF primary_type = Keywords.album THEN 20
         ELSE IF primary_type \in {<<"e","p">>, <<"s","i","n","g","l","e">>} THEN 5
         ELSE IF primary_type = Keywords.compilation THEN 0 - 10
         ELSE 0)
        + (IF ~Contains(title, Keywords.live) THEN 10 ELSE 0)
        + (IF ~Contains(title, Keywords.compilation) /\ ~Contains(title, Keywords.greatest_hits)
           THEN 8 ELSE 0)
        + (IF ~Contains(title, Keywords.best_of) /\ ~Contains(title, Keywords.collection) THEN 5 ELSE 0)
        + (IF ~Contains(title, Keywords.remix) /\ ~Contains(title, Keywords.demo)
              /\ ~Contains(title, Keywords.bootleg)
           THEN 3 ELSE 0)
        + (IF year >= 0 /\ 1960 <= year /\ year <= 2025 THEN 2 ELSE 0)
        + (IF year >= 0 /\ year >= 1970 /\ primary_type = Keywords.album THEN 1 ELSE 0)
        + (IF release.country \in {"US", "GB", "DE", "JP", "CA", "AU"} THEN 1 ELSE 0)

\* The score find_best_recording gives a recording.
recording_score(recording) ==
    LET title == Lower(recording.title)
    IN  (IF ~Contains(title, Keywords.live) /\ ~Contains(title, Keywords.remix)
            /\ ~Contains(title, Keywords.demo)
         THEN 10 ELSE 0)
        + (IF recording.releases # <<>> THEN 5 ELSE 0)
        + (IF \E i \in 1..Len(recording.releases) :
                 /\ ~Contains(Lower(recording.releases[i].title), Keywords.live)
                 /\ ~Contains(Lower(recording.releases[i].title), Keywords.compilation)
           THEN 5 ELSE 0)

\* list.sort(key=lambda x: x[0], reverse=True) on the positions 1..n of the
\* scored candidates: the sort is stable, so a candidate goes behind the
\* ones of the same score that came before it.  InsertDesc_unstable puts it
\* in front of them.
RECURSIVE InsertDesc_unstable(_, _, _)
InsertDesc_unstable(order, x, score) ==
    IF order = <<>> THEN <<x>>
    ELSE IF score[Head(order)] > score[x]
         THEN <<Head(order)>> \o InsertDesc_unstable(Tail(order), x, score)
         ELSE <<x>> \o order

RECURSIVE InsertDesc(_, _, _)
InsertDesc(order, x, score) ==
    IF order = <<>> THEN <<x>>
    ELSE IF score[Head(order)] >= score[x]
         THEN <<Head(order)>> \o InsertDesc(Tail(order), x, score)
         ELSE <<x>> \o order

RECURSIVE SortDesc(_, _)
SortDesc(score, n) ==
    IF n = 0 THEN <<>> ELSE InsertDesc(SortDesc(score, n - 1), n, score)

\* MetadataEnhancer.find_best_release
find_best_release(releases) ==
    IF releases = <<>> THEN 0
    ELSE SortDesc([i \in 1..Len(releases) |-> release_score(releases[i])],
                  Len(releases))[1]

\* MetadataEnhancer.find_best_recording
find_best_recording(recordings) ==
    IF recordings = <<>> THEN 0
    ELSE SortDesc([i \in 1..Len(recordings) |-> recording_score(recordings[i])],
                  Len(recordings))[1]

\* The candidates of a reply.
MaxCandidates == 3

CandidateReleases ==
    { [title |-> <<"X">>, primary_type |-> <<"A","l","b","u","m">>, date |-> <<"1","9","7","5","-","0","5","-","0","1">>, country |-> "US"],
      [title |-> <<"X">>, primary_type |-> <<"A","l","b","u","m">>, date |-> <<"1","9","7","5">>, country |-> "GB"],
      [title |-> <<"X"," ","L","i","v","e">>, primary_type |-> <<"a","l","b","u","m">>, date |-> <<"1","9","6","9">>, country |-> "US"],
      [title |-> <<"G","r","e","a","t","e","s","t"," ","H","i","t","s">>, primary_type |-> <<"C","o","m","p","i","l","a","t","i","o","n">>, date |-> <<>>, country |-> "US"],
      [title |-> <<"X">>, primary_type |-> <<"S","i","n","g","l","e">>, date |-> <<>>, country |-> ""],
      [title |-> <<"X">>, primary_type |-> <<>>, date |-> <<"1","9","5","0","-","0","1","-","0","1">>, country |-> "XW"] }

CandidateRecordings ==
    { [title |-> <<"B">>, releases |-> <<  >>],
      [title |-> <<"B"," ","(","L","i","v","e",")">>, releases |-> << [title |-> <<"X">>] >>],
      [title |-> <<"B">>, releases |-> << [title |-> <<"X">>] >>],
      [title |-> <<"B"," ","L","i","v","e">>, releases |-> <<  >>],
      [title |-> <<"B"," ","R","e","m","i","x">>, releases |-> << [title |-> <<"X"," ","L","i","v","e">>] >>] }

(***************************************************************************)
(* Calls of single functions (specification SpecCall): the function and    *)
(* its argument are chosen at the start, the one step is the call.         *)
(***************************************************************************)
\* No batch command runs.
NoBatch ==
    /\ cmd = "none"
    /\ header = {}
    /\ input = <<>>
    /\ pc = "done"
    /\ idx = 0
    /\ call = NoCall
    /\ out = <<>>
    /\ stats = [successful |-> 0, failed |-> 0, albums_expanded |-> 0]
    /\ rowlog = <<>>
    /\ reqs = <<>>
    /\ file = NoFile
    /\ result = "none"
    /\ interrupted = "no"
    /\ elapsed = RateLimit
    /\ sinceSend = RateLimit

\* The three title-cleaning functions.
CleanFns == {"clean_text", "ymp_clean_title", "me_clean_title"}

\* Names of tracks and artists, and the artifacts that uploaders append to
\* a video title.
Names == { <<"S","o","n","g">>,
           <<"T","w","o"," ","W","o","r","d","s">>,
           <<"A","u","d","i","o","s","l","a","v","e">>,
           <<"L","y","r","i","c","s"," ","B","o","r","n">>,
           <<"J","a","y","-","Z">> }

Artifacts == { <<"(","O","f","f","i","c","i","a","l"," ","V","i","d","e","o",")">>,
               <<"[","O","f","f","i","c","i","a","l"," ","V","i","d","e","o","]">>,
               <<"(","H","D",")">>,
               <<"[","H","Q","]">>,
               <<"(","L","y","r","i","c","s",")">>,
               <<"(","A","u","d","i","o",")">>,
               <<"[","M","u","s","i","c"," ","V","i","d","e","o","]">>,
               <<"(","F","u","l","l"," ","A","l","b","u","m",")">> }

\* The video title '<name> <artifact>'.
TitleOf(name, artifact) == name \o <<" ">> \o artifact

\* The three implementations of the studio-album step of one row.
MergeFns == {"saf_process_entry", "mp_process_csv", "ymp_process_tracks"}

\* The row of the input file with that album.
RowWithAlbum(f, existing) ==
    IF f = "ymp_process_tracks"
    THEN MusicTrack6(sTitleAB, <<"A">>, <<"B">>, existing, <<>>, <<>>)
    ELSE MusicTrack3(<<"B">>, <<"A">>, existing)

\* The arguments a function is called with: a title; the album a row has
\* before the step and the studio album the lookup finds for it; the
\* endpoint of a request and what the two base URLs come back with; the
\* candidates of a reply.
ArgsOf(f) ==
    CASE f \in CleanFns -> {TitleOf(n, a) : n \in Names, a \in Artifacts}
      [] f \in MergeFns ->
            [existing : { <<>>, <<"X">>, <<"x">>, <<" ", "X">>, <<"Y">>, <<" ">> },
             studio : { <<"X">>, <<"Y">> }]
      [] f = "_make_request" ->
            UNION {[kind : {k}, replies : Replies(k) \X Replies(k)] :
                      k \in {"studio", "track", "album", "tracks"}}
      [] f = "find_best_release" -> SeqsUpTo(CandidateReleases, MaxCandidates)
      [] f = "find_best_recording" -> SeqsUpTo(CandidateRecordings, MaxCandidates)

\* The call of a title-cleaning function.
CleanTitle ==
    /\ fn \in CleanFns
    /\ ret = Pending
    /\ ret' = [value |-> CASE fn = "clean_text"      -> clean_text(arg)
                            [] fn = "ymp_clean_title" -> ymp_clean_title(arg)
                            [] fn = "me_clean_title"  -> me_clean_title(arg)]
    /\ UNCHANGED <<fn, arg, outsideCall>>

\* The studio-album step on one row for which the lookup found arg.studio:
\* the album written and what the row adds to the two tallies.
MergeAlbum ==
    /\ fn \in MergeFns
    /\ ret = Pending
    /\ \E entry \in {RowWithAlbum(fn, arg.existing)} :
          \E r \in {CASE fn = "saf_process_entry"  -> saf_finish(entry, arg.studio)
                      [] fn = "mp_process_csv"     -> mp_studio_finish(entry, arg.studio)
                      [] fn = "ymp_process_tracks" -> ymp_studio_row(entry, arg.studio)} :
             ret' = [album |-> r.rows[1]["album"], successful |-> r.succ,
                     failed |-> r.fail]
    /\ UNCHANGED <<fn, arg, outsideCall>>

\* The call of find_best_release or find_best_recording.
FindBest ==
    /\ fn \in {"find_best_release", "find_best_recording"}
    /\ ret = Pending
    /\ ret' = [best |-> IF fn = "find_best_release" THEN find_best_release(arg)
                         ELSE find_best_recording(arg)]
    /\ UNCHANGED <<fn, arg, outsideCall>>

\* The call of MusicBrainzAPI._make_request.
MakeRequest ==
    /\ fn = "_make_request"
    /\ ret = Pending
    /\ ret' = make_request_from(arg.kind, arg.replies, <<>>)
    /\ UNCHANGED <<fn, arg, outsideCall>>

InitCall ==
    /\ NoBatch
    /\ NoMain
    /\ NoSpotify
    /\ fn \in CleanFns \cup MergeFns
                \cup {"find_best_release", "find_best_recording", "_make_request"}
    /\ arg \in ArgsOf(fn)
    /\ ret = Pending

NextCall ==
    \/ CleanTitle
    \/ MergeAlbum
    \/ FindBest
    \/ MakeRequest

SpecCall == InitCall /\ [][NextCall]_vars

(***************************************************************************)
(* The properties of the single functions (specification SpecCall).        *)
(***************************************************************************)
\* C11: for every title of the form '<name> <artifact>', with the artifact
\* one of the parenthesised or bracketed ones, each title-cleaning function
\* returns exactly '<name>'.
C11_CleanedIsName ==
    (fn \in CleanFns /\ ret # Pending)
    => \A n \in Names, a \in Artifacts : arg = TitleOf(n, a) => ret.value = n

\* C14: given the same existing album and the same studio album found by the
\* lookup, StudioAlbumFinder.py process_entry, music_pipeline
\* StudioAlbumFinder.process_csv and youtube_music_processor
\* StudioAlbumFinder.process_tracks write the same album value for the row.
C14_SameAlbum ==
    (fn \in MergeFns /\ ret # Pending)
    => ret.album = saf_finish(RowWithAlbum("saf_process_entry", arg.existing),
                              arg.studio).rows[1]["album"]

\* C20: when the lookup of StudioAlbumFinder.process_entry returns album S
\* for a row whose existing album, trimmed, is E: the album becomes S if E is
\* empty, stays E if E equals S case-insensitively, and becomes 'E / S'
\* otherwise; successful_lookups grows by one and failed_lookups does not
\* change.
C20_MergeRule ==
    (fn = "saf_process_entry" /\ ret # Pending)
    => LET E == Strip(arg.existing)
           S == arg.studio
       IN  /\ E = <<>> => ret.album = S
           /\ (E # <<>> /\ Lower(E) = Lower(S)) => ret.album = E
           /\ (E # <<>> /\ Lower(E) # Lower(S))
              => ret.album = E \o <<" ", "/", " ">> \o S
           /\ ret.successful = 1
           /\ ret.failed = 0

\* process_entry combined the existing album Y with the studio album X.
C20_Witness ==
    /\ fn = "saf_process_entry"
    /\ arg = [existing |-> <<"Y">>, studio |-> <<"X">>]
    /\ ret # Pending
    /\ ret.album = <<"Y", " ", "/", " ", "X">>

\* C15: find_best_release returns None for an empty list, and for every
\* other list a candidate whose score (the points for primary type, title
\* keywords, release year and country) is maximal, the earliest such
\* candidate in input order when scores tie.
C15_BestRelease ==
    (fn = "find_best_release" /\ ret # Pending)
    => IF arg = <<>> THEN ret.best = 0
       ELSE /\ ret.best \in 1..Len(arg)
            /\ \A j \in 1..Len(arg) :
                  release_score(arg[j]) <= release_score(arg[ret.best])
            /\ \A j \in 1..(ret.best - 1) :
                  release_score(arg[j]) < release_score(arg[ret.best])

\* Three candidates of which the last two tie above the first: the second
\* is returned.
C15_Witness ==
    /\ fn = "find_best_release"
    /\ ret # Pending
    /\ Len(arg) = 3
    /\ arg[2] # arg[3]
    /\ release_score(arg[2]) = release_score(arg[3])
    /\ release_score(arg[1]) < release_score(arg[2])
    /\ ret.best = 2

\* A recording whose title holds none of live, remix, demo.
IsStudioRecording(recording) ==
    /\ ~Contains(Lower(recording.title), Keywords.live)
    /\ ~Contains(Lower(recording.title), Keywords.remix)
    /\ ~Contains(Lower(recording.title), Keywords.demo)

\* C16: whenever the candidate list holds a recording whose title contains
\* none of live, remix, demo, the recording find_best_recording returns is
\* such a recording, whatever the order and the releases of the candidates.
C16_StudioPreferred ==
    (fn = "find_best_recording" /\ ret # Pending
       /\ \E i \in 1..Len(arg) : IsStudioRecording(arg[i]))
    => ret.best \in 1..Len(arg) /\ IsStudioRecording(arg[ret.best])

\* C25: MusicBrainzAPI._make_request always returns: it asks the HTTPS
\* endpoint first, sends the HTTP fallback request exactly when the HTTPS
\* attempt raised, answered another status than 200 or answered a body
\* that does not parse, returns the parsed body of the first attempt that
\* answered 200 with one, and returns None when both attempts failed.
C25_HttpsThenFallback ==
    (fn = "_make_request" /\ ret # Pending)
    => LET first == arg.replies[1]
           second == arg.replies[2]
       IN  /\ ret.sent[1] = Https(arg.kind)
           /\ IF first.status = "ok"
              THEN /\ ret.sent = <<Https(arg.kind)>>
                   /\ ret.data.ok /\ ret.data.body = first.body
              ELSE /\ first.status \in FailureStatuses
                   /\ ret.sent = <<Https(arg.kind), Http(arg.kind)>>
                   /\ IF second.status = "ok"
                      THEN ret.data.ok /\ ret.data.body = second.body
                      ELSE ~ret.data.ok

\* The HTTPS attempt answered a body that does not parse and the fallback
\* answered 200 with a body that is returned.
C25_Witness ==
    /\ fn = "_make_request" /\ ret # Pending
    /\ arg.replies[1].status = "badjson"
    /\ Len(ret.sent) = 2
    /\ ret.data.ok /\ ret.data.body # <<>>

(***************************************************************************)
(* main() of the scripts (specification SpecMain).  A step is taken as a   *)
(* whole here: it returns True after it wrote its file, or it fails before *)
(* it opens the file; the rows inside a step are the matter of Spec.       *)
(***************************************************************************)
Programs == {"mp", "ymp", "saf", "ms", "me", "ypm"}

Steps == <<"extract", "enhance", "studio", "sort">>

StepIndex(s) == CHOOSE i \in 1..Len(Steps) : Steps[i] = s

\* The commands of a script; the four single scripts have one, "main", which
\* runs the step StepOfScript.
MainCommands(p) ==
    IF p \in {"mp", "ymp"} THEN {"extract", "enhance", "studio", "sort", "pipeline"}
    ELSE {"main"}

StepOfScript(p) ==
    CASE p = "ypm" -> "extract"
      [] p = "me"  -> "enhance"
      [] p = "saf" -> "studio"
      [] p = "ms"  -> "sort"

\* The files of config.py (the single scripts use the same names).
ConfigFile(s) ==
    CASE s = "extract" -> "data/zahin_playlist.csv"
      [] s = "enhance" -> "data/enhanced_metadata.csv"
      [] s = "studio"  -> "data/studio_albums.csv"
      [] s = "sort"    -> "data/sorted_music.csv"

\* The defaults of --output in youtube_music_processor.py and the
\* intermediate files of its pipeline.
YmpOutput(c) ==
    CASE c = "extract"  -> "data/playlist.csv"
      [] c = "enhance"  -> "data/enhanced.csv"
      [] c = "studio"   -> "data/studio.csv"
      [] c = "sort"     -> "data/sorted.csv"
      [] c = "pipeline" -> "data/final_music.csv"

YmpIntermediate(s) ==
    CASE s = "extract" -> "data/01_extracted.csv"
      [] s = "enhance" -> "data/02_enhanced.csv"
      [] s = "studio"  -> "data/03_studio_albums.csv"

NoWrite == "<no file>"

\* The steps main() runs for the command, in the order of the code.
Plan(p, c, a) ==
    IF c # "pipeline" THEN <<IF c = "main" THEN StepOfScript(p) ELSE c>>
    ELSE IF p = "mp" THEN Steps
    ELSE SelectSeq(Steps, LAMBDA s : /\ ~(s = "enhance" /\ a.skip_enhance)
                                     /\ ~(s = "studio" /\ a.skip_studio))

\* The file the step writes when it succeeds.
StepFile(p, c, a, s) ==
    IF p # "ymp" THEN ConfigFile(s)
    ELSE IF c # "pipeline" \/ s = "sort" THEN YmpOutput(c)
    ELSE IF a.keep_intermediate THEN YmpIntermediate(s)
    ELSE NoWrite

\* The file main() calls confirm_overwrite for (or asks for itself).
ConfirmFile(p, c) ==
    IF p = "ymp" THEN YmpOutput(c)
    ELSE IF c = "pipeline" THEN ConfigFile("extract")
    ELSE ConfigFile(IF c = "main" THEN StepOfScript(p) ELSE c)

\* What the user may type at the prompt.
Responses == { <<"y">>, <<"Y">>, <<"Y","e","s">>, <<"y","e","s">>, <<"n">>, <<>> }

\* confirm_overwrite: True without a prompt when the file does not exist.
confirm_overwrite(exists, response) ==
    IF exists THEN Lower(response) \in { <<"y">>, <<"y","e","s">> } ELSE TRUE

\* Where main() goes after step s of the plan returned ok: AfterStep_continue
\* goes on whatever the step returned, AfterStep is `if not success: return
\* False` (an exception or an empty track list in youtube_music_processor).
AfterStep_continue(plan, s, ok) ==
    IF \E i \in 1..(Len(plan) - 1) : plan[i] = s
    THEN plan[(CHOOSE i \in 1..Len(plan) : plan[i] = s) + 1]
    ELSE "done"

AfterStep(plan, s, ok) ==
    IF ~ok THEN "done"
    ELSE IF \E i \in 1..(Len(plan) - 1) : plan[i] = s
    THEN plan[(CHOOSE i \in 1..Len(plan) : plan[i] = s) + 1]
    ELSE "done"

\* The overwrite prompt at the head of the command.
Confirm ==
    /\ mainpc = "confirm"
    /\ \E response \in Responses, f \in {ConfirmFile(prog, command)} :
          \E go \in {confirm_overwrite(f \in disk, response)} :
             /\ asked' = IF f \in disk
                          THEN Append(asked, [file |-> f, response |-> response])
                          ELSE asked
             /\ mainpc' = IF go THEN Plan(prog, command, args)[1] ELSE "done"
             /\ returned' = IF go THEN returned ELSE "False"
    /\ UNCHANGED <<prog, command, args, disk, steps, writes, outsideMain>>

\* Bound of the model: the tracks a step of main() hands to the next.
MaxTracks == 2

\* The tracks the step that runs next has to work on: the playlist for the
\* first step of the command, else what the step before it returned.
TracksAt(done) == IF done = <<>> THEN MaxTracks ELSE done[Len(done)].rows

\* What a step can come back with, given the `have` tracks it works on: ok
\* (it returned without an exception and, where the code asks, with
\* tracks), stopped (its loop caught a KeyboardInterrupt and broke off), n
\* (the tracks it returned), calls (it ran yt-dlp or sent an HTTP request).
\* The sort has no loop that catches the interrupt and calls nothing; the
\* extraction always runs yt-dlp for the list of the playlist; a loop over no
\* track calls nothing and cannot be stopped; process_tracks of
\* youtube_music_processor.py returns whatever it accumulated, the other
\* steps report failure when they have nothing to save.
StepOutcome(p, c, s, have, ok, stopped, n, calls) ==
    /\ s = "sort" => (~stopped /\ ~calls)
    /\ s = "extract" => calls
    /\ stopped => have > 0
    /\ (calls /\ s # "extract") => have > 0
    /\ ~ok => n = 0
    /\ (ok /\ ~stopped) => (n > 0 <=> have > 0)
    /\ (ok /\ s \in {"studio", "sort"}) => n <= have
    /\ (ok /\ ~(p = "ymp" /\ c = "pipeline" /\ s \in {"enhance", "studio"})) => n > 0

\* One step of the command, with the file it saves.
RunStep ==
    /\ mainpc \in {Steps[i] : i \in 1..Len(Steps)}
    /\ \E ok \in BOOLEAN, f \in {StepFile(prog, command, args, mainpc)} :
          \E stopped \in BOOLEAN, calls \in BOOLEAN, n \in 0..MaxTracks :
          \E next \in {AfterStep(Plan(prog, command, args), mainpc, ok)} :
             /\ StepOutcome(prog, command, mainpc, TracksAt(steps), ok, stopped, n, calls)
             /\ steps' = Append(steps, [name |-> mainpc, ok |-> ok, stopped |-> stopped,
                                        rows |-> n, calls |-> calls])
             /\ writes' = IF ok /\ n > 0 /\ f # NoWrite
                           THEN Append(writes, [file |-> f, existed |-> f \in disk])
                           ELSE writes
             /\ disk' = IF ok /\ n > 0 /\ f # NoWrite THEN disk \cup {f} ELSE disk
             /\ mainpc' = next
             /\ returned' = IF next # "done" THEN returned
                             ELSE IF ok THEN "True" ELSE "False"
    /\ UNCHANGED <<prog, command, args, asked, outsideMain>>

\* A KeyboardInterrupt in a step outside its loop over the rows: only main()
\* of youtube_music_processor.py catches it.
MainInterrupt ==
    /\ mainpc \in {Steps[i] : i \in 1..Len(Steps)}
    /\ \E calls \in BOOLEAN :
          /\ StepOutcome(prog, command, mainpc, TracksAt(steps), FALSE, FALSE, 0, calls)
          /\ steps' = Append(steps, [name |-> mainpc, ok |-> FALSE, stopped |-> FALSE,
                                     rows |-> 0, calls |-> calls])
    /\ mainpc' = "done"
    /\ returned' = IF prog = "ymp" THEN "False" ELSE "crash"
    /\ UNCHANGED <<prog, command, args, disk, asked, writes, outsideMain>>

\* The files the command may find on disk.
FilesOf(p, c, a) ==
    {ConfirmFile(p, c)}
    \cup ({StepFile(p, c, a, Plan(p, c, a)[i]) : i \in 1..Len(Plan(p, c, a))}
           \ {NoWrite})

InitMain ==
    /\ NoBatch
    /\ NoCallAlone
    /\ NoSpotify
    /\ prog \in Programs
    /\ command \in MainCommands(prog)
    /\ args \in IF prog = "ymp" /\ command = "pipeline"
                THEN [skip_enhance : BOOLEAN, skip_studio : BOOLEAN,
                      keep_intermediate : BOOLEAN]
                ELSE {NoFlags}
    /\ disk \in SUBSET FilesOf(prog, command, args)
    /\ asked = <<>>
    /\ steps = <<>>
    /\ writes = <<>>
    /\ mainpc = "confirm"
    /\ returned = "none"

NextMain ==
    \/ Confirm
    \/ RunStep
    \/ MainInterrupt

SpecMain == InitMain /\ [][NextMain]_vars

(***************************************************************************)
(* The properties of main() (specification SpecMain).                      *)
(***************************************************************************)
\* The user answered y or yes, in any case, to the prompt for the file.
Confirmed(f) ==
    \E j \in 1..Len(asked) :
        asked[j].file = f /\ Lower(asked[j].response) \in { <<"y">>, <<"y","e","s">> }

\* C12: no command overwrites a file that already exists unless the user
\* answered y or yes to the overwrite prompt for that file, the intermediate
\* files of the pipeline commands included.
C12_OverwriteConfirmed ==
    \A i \in 1..Len(writes) : writes[i].existed => Confirmed(writes[i].file)

\* C13: the pipeline command runs its steps in the order extract, enhance,
\* find-studio-album, sort; a step starts only after the step before it
\* reported success; when a step fails no later step runs and the final
\* sorted output is not written.
C13_StepsInOrder ==
    command = "pipeline"
    => LET plan == Plan(prog, command, args)
           final == StepFile(prog, command, args, "sort")
       IN  /\ Len(steps) <= Len(plan)
           /\ \A i \in 1..Len(steps) : steps[i].name = plan[i]
           /\ \A i \in 1..Len(steps), j \in 1..Len(steps) :
                 i < j => StepIndex(steps[i].name) < StepIndex(steps[j].name)
           /\ \A j \in 2..Len(steps) : steps[j - 1].ok
           /\ (\E i \in 1..Len(steps) : ~steps[i].ok)
              => /\ mainpc = "done"
                 /\ returned # "True"
                 /\ \A w \in 1..Len(writes) : writes[w].file # final

\* A pipeline that stopped at its second step, which failed.
C13_Witness ==
    /\ command = "pipeline"
    /\ Len(steps) = 2
    /\ steps[1].ok
    /\ ~steps[2].ok
    /\ mainpc = "done"

\* C24: in the pipeline command of youtube_music_processor.py, once a
\* keyboard interrupt has stopped the row loop of a step, no later step of
\* the pipeline runs yt-dlp or sends an HTTP request.
C24_InterruptEndsCalls ==
    (prog = "ymp" /\ command = "pipeline")
    => \A i \in 1..Len(steps), j \in 1..Len(steps) :
          (i < j /\ steps[i].stopped) => ~steps[j].calls

(***************************************************************************)
(* The Spotify importer (specification SpecSpotify).  A CSV file is the    *)
(* sequence of its lines, with one column: the first line read by pandas   *)
(* is the name of the column, the other lines are its values.              *)
(***************************************************************************)
sTitle == <<"t","i","t","l","e">>

MaxFiles == 2

\* The files the folder may hold: a clean export of two songs, an export
\* with five lines of extra information in front of the header, a file with
\* another column, a file without songs.
CsvContents ==
    { <<sTitle, <<"a">>, <<"b">> >>,
      << <<"#">>, <<"#">>, <<"#">>, <<"#">>, <<"#">>, sTitle, <<"a">> >>,
      << <<"n","a","m","e">>, <<"a">> >>,
      <<sTitle>> }

\* remove_extra_info_from_csv on the lines of the file: the lines it leaves
\* in the file.  remove_extra_info_always rewrites every file.
remove_extra_info_always(lines) ==
    SubSeq(lines, 6, Len(lines))

remove_extra_info_from_csv(lines) ==
    IF lines = <<>> \/ Contains(Head(lines), sTitle) THEN lines
    ELSE SubSeq(lines, 6, Len(lines))

\* pandas.read_csv and `'title' in dataframe.columns`.
HasTitleColumn(lines) == lines # <<>> /\ Head(lines) = sTitle

\* dataframe['title'].tolist()
SongsOf(lines) == Tail(lines)

\* os.path.splitext(file_name)[0]
PlaylistName(file_name) == file_name[1]

\* One iteration of get_playlists_from_multiple_csv: the file is cleaned in
\* place and read; without a title column the exception ends the run.
ReadCsv ==
    /\ spc = "read"
    /\ Len(playlists) < Len(folder)
    /\ \E k \in {Len(playlists) + 1} :
          \E lines \in {remove_extra_info_from_csv(folder[k].lines)} :
             /\ folder' = [folder EXCEPT ![k].lines = lines]
             /\ IF HasTitleColumn(lines)
                THEN /\ playlists' = Append(playlists, [name |-> PlaylistName(folder[k].name),
                                                        songs |-> SongsOf(lines)])
                     /\ spc' = spc
                ELSE /\ playlists' = playlists
                     /\ spc' = "crashed"
    /\ UNCHANGED <<folder0, cur, created, added, failed_songs, raisedAt,
                   outsideSpotify>>

\* spotify_authenticate, after the last file is read.
Authenticate ==
    /\ spc = "read"
    /\ Len(playlists) = Len(folder)
    /\ spc' = IF playlists = <<>> THEN "done" ELSE "import"
    /\ cur' = [pl |-> 1, song |-> 0]
    /\ UNCHANGED <<folder, folder0, playlists, created, added, failed_songs,
                   raisedAt, outsideSpotify>>

\* create_spotify_playlist for the playlist cur.pl; an exception of the API
\* ends the run.
CreatePlaylist ==
    /\ spc = "import"
    /\ Len(created) < cur.pl
    /\ \E ok \in BOOLEAN :
          IF ok
          THEN /\ created' = Append(created, playlists[cur.pl].name)
               /\ failed_songs' = Append(failed_songs, <<>>)
               /\ spc' = spc
          ELSE /\ spc' = "crashed"
               /\ UNCHANGED <<created, failed_songs>>
    /\ UNCHANGED <<folder, folder0, playlists, cur, added, raisedAt, outsideSpotify>>

\* What add_songs_to_spotify_playlist does when can_find_song_on_spotify
\* raises: nothing catches the exception, the run ends.
after_raise(song) ==
    [spc |-> "crashed", failed |-> <<>>]

\* One iteration of the loop of add_songs_to_spotify_playlist:
\* can_find_song_on_spotify finds a track and adds it, finds none, or the
\* search or the add raises.
ImportSong ==
    /\ spc = "import"
    /\ Len(created) = cur.pl
    /\ cur.song < Len(playlists[cur.pl].songs)
    /\ \E outcome \in {"hit", "miss", "search_raises", "add_raises"}, song \in {playlists[cur.pl].songs[cur.song + 1]} :
          \E r \in {IF outcome \in {"hit", "miss"}
                     THEN [spc |-> "import",
                           failed |-> IF outcome = "miss" THEN <<song>> ELSE <<>>]
                     ELSE after_raise(song)} :
             /\ added' = IF outcome = "hit"
                          THEN Append(added, [playlist |-> cur.pl, track |-> song])
                          ELSE added
             /\ failed_songs' = [failed_songs EXCEPT ![cur.pl] = @ \o r.failed]
             /\ raisedAt' = IF outcome \in {"hit", "miss"} THEN raisedAt
                             ELSE Append(raisedAt, [playlist |-> cur.pl,
                                                    song |-> cur.song + 1])
             /\ spc' = r.spc
             /\ cur' = IF r.spc = "import" THEN [cur EXCEPT !.song = @ + 1] ELSE cur
    /\ UNCHANGED <<folder, folder0, playlists, created, outsideSpotify>>

\* The end of convert_youtube_playlist_to_spotify_playlist: the report, and
\* the next playlist of main's loop.
FinishPlaylist ==
    /\ spc = "import"
    /\ Len(created) = cur.pl
    /\ cur.song = Len(playlists[cur.pl].songs)
    /\ cur' = [pl |-> cur.pl + 1, song |-> 0]
    /\ spc' = IF cur.pl = Len(playlists) THEN "done" ELSE spc
    /\ UNCHANGED <<folder, folder0, playlists, created, added, failed_songs,
                   raisedAt, outsideSpotify>>

InitSpotify ==
    /\ NoBatch
    /\ NoCallAlone
    /\ NoMain
    /\ \E f \in SeqsUpTo(CsvContents, MaxFiles) :
          folder = [k \in 1..Len(f) |-> [name |-> <<k, ".csv">>, lines |-> f[k]]]
    /\ folder0 = folder
    /\ playlists = <<>>
    /\ spc = "read"
    /\ cur = [pl |-> 0, song |-> 0]
    /\ created = <<>>
    /\ added = <<>>
    /\ failed_songs = <<>>
    /\ raisedAt = <<>>

NextSpotify ==
    \/ ReadCsv
    \/ Authenticate
    \/ CreatePlaylist
    \/ ImportSong
    \/ FinishPlaylist

SpecSpotify == InitSpotify /\ [][NextSpotify]_vars

\* The batch steps and the importer together: every run of a script that
\* reads a CSV file.
InitFiles == Init \/ InitSpotify

NextFiles == Next \/ NextSpotify

SpecFiles == InitFiles /\ [][NextFiles]_vars

(***************************************************************************)
(* The properties of the importer (specifications SpecSpotify, SpecFiles). *)
(***************************************************************************)
\* The tracks added to the playlist p.
AddedTo(p) == SelectSeq(added, LAMBDA a : a.playlist = p)

\* The run of the importer is over.
ImportEnded == spc \in {"done", "crashed"} /\ folder0 # <<>>

C18_FailureDoesNotAbort ==
    (ImportEnded /\ raisedAt # <<>>)
    => /\ Len(created) = Len(playlists)
       /\ \A p \in 1..Len(playlists) :
             Len(AddedTo(p)) + Len(failed_songs[p]) + Len(SelectSeq(raisedAt, LAMBDA e : e.playlist = p))
                 = Len(playlists[p].songs)

\* C19: every song title of a playlist the importer created ends either as
\* one track added to that playlist or in failed_songs, never both and never
\* neither: tracks added plus failed songs is the number of titles, and
\* failed_songs keeps the input order.
C19_AddedOrFailed ==
    ImportEnded
    => \A p \in 1..Len(created) :
          /\ Len(AddedTo(p)) + Len(failed_songs[p]) = Len(playlists[p].songs)
          /\ \E pos \in [1..Len(failed_songs[p]) -> 1..Len(playlists[p].songs)] :
                /\ \A i \in 1..Len(failed_songs[p]) :
                      playlists[p].songs[pos[i]] = failed_songs[p][i]
                /\ \A i \in 1..Len(failed_songs[p]), j \in 1..Len(failed_songs[p]) :
                      i < j => pos[i] < pos[j]

(***************************************************************************)
(* The properties of the batch steps (specification Spec).                 *)
(***************************************************************************)
\* The run went through every row without a KeyboardInterrupt.
Uninterrupted == interrupted = "no" /\ pc \in {"write", "done"} /\ Len(rowlog) = Len(input)

\* The lookup of the i-th row was attempted and enriched nothing.
LookupFailed(i) == rowlog[i].looked /\ rowlog[i].succ = 0

\* C1: a failure while processing a single row never aborts the batch: the
\* remaining rows are processed, the output file is written with every
\* accumulated row and the step reports success.
C1_NeverAborts ==
    (pc = "done" /\ interrupted = "no"
       /\ \E i \in 1..Len(rowlog) : rowlog[i].raised \/ rowlog[i].fail = 1)
    => /\ Len(rowlog) = Len(input)
       /\ result = "True"
       /\ file.exists
       /\ Len(file.rows) = Len(out)

C3_RowsMatchHeader ==
    (pc = "write" /\ out # <<>>)
    => \A i \in 1..Len(out) : DOMAIN out[i] = DOMAIN out[1]

\* C4 as stated: one row issues at most one HTTP request.
C4_OneRequestPerRow == Len(reqs) <= 1

\* C4 amended: one row issues at most four HTTP requests (two lookups,
\* each over HTTPS and, after a failure, over HTTP), and no request is
\* sent twice for a row.
C4_AtMostFourRequests ==
    /\ Len(reqs) <= 4
    /\ \A i, j \in 1..Len(reqs) : i # j => reqs[i] # reqs[j]

\* A row that has sent four requests.
C4_Witness == Len(reqs) = 4 /\ pc = "post"

\* C5: a request is sent no sooner than the rate-limit delay after the
\* request before it.
C5_RateLimited ==
    [][ Len(reqs') = Len(reqs) + 1 => sinceSend >= RateLimit ]_vars

\* C6 as stated: after an uninterrupted run successful + failed is the
\* number of input rows, and a row whose lookup failed is counted failed.
C6_TallyIsRowCount ==
    Uninterrupted
    => /\ stats.successful + stats.failed = Len(input)
       /\ \A i \in 1..Len(rowlog) :
             (rowlog[i].looked /\ ~rowlog[i].ok)
             => (rowlog[i].fail = 1 /\ rowlog[i].succ = 0)

\* C6 amended: every row is tallied at most once; a row that was looked
\* up or that raised is tallied exactly once; the tallies are the sums
\* over the rows, so successful + failed is the number of input rows less
\* the rows skipped before any lookup; a row whose lookup failed is
\* counted failed and not successful.
C6_TallyAtMostOnce ==
    /\ \A i \in 1..Len(rowlog) :
          /\ rowlog[i].succ + rowlog[i].fail <= 1
          /\ (rowlog[i].looked \/ rowlog[i].raised)
             => rowlog[i].succ + rowlog[i].fail = 1
          /\ (rowlog[i].looked /\ ~rowlog[i].ok)
             => (rowlog[i].fail = 1 /\ rowlog[i].succ = 0)
    /\ stats.successful = Cardinality({i \in 1..Len(rowlog) : rowlog[i].succ = 1})
    /\ stats.failed = Cardinality({i \in 1..Len(rowlog) : rowlog[i].fail = 1})
    /\ Uninterrupted => stats.successful + stats.failed <= Len(input)

\* An uninterrupted run with a row skipped without a tally and a row whose
\* lookup failed.
C6_Witness ==
    /\ Uninterrupted /\ pc = "done"
    /\ \E i \in 1..Len(rowlog) : rowlog[i].succ + rowlog[i].fail = 0
    /\ \E i \in 1..Len(rowlog) : rowlog[i].looked /\ ~rowlog[i].ok

\* The i-th row is in the output as it was in the input.
PassedThrough(i) ==
    /\ Len(rowlog[i].rows) = 1
    /\ \A c \in header : /\ c \in DOMAIN rowlog[i].rows[1]
                         /\ rowlog[i].rows[1][c] = input[i][c]

CompleteWithoutEnrichment ==
    /\ Uninterrupted /\ pc = "done" /\ result = "True"
    /\ stats.successful = 0

StudioCmds == {"saf", "mp_studio", "ymp_studio"}

\* The text of the cell of column c of the i-th input row: empty for a cell
\* the row does not have.
InputCell(i, c) == WrittenRow(input[i], header \cup {c})[c]

\* C21: the studio-album step changes nothing but the album column: every
\* processed row contributes one output row, in the order of the input, and
\* every column of it other than album has the value it has in the input
\* row, in the accumulated rows and in the output file.
C21_OnlyAlbumChanges ==
    cmd \in StudioCmds
    => /\ Len(out) = Len(rowlog)
       /\ \A i \in 1..Len(out) :
             /\ header \subseteq DOMAIN out[i]
             /\ \A c \in (DOMAIN out[i]) \ {"album"} : out[i][c] = Get(input[i], c)
       /\ file.exists
          => /\ Len(file.rows) <= Len(out)
             /\ header \subseteq file.header
             /\ \A i \in 1..Len(file.rows) :
                   \A c \in file.header \ {"album"} : file.rows[i][c] = InputCell(i, c)

\* A studio-album step has written two rows and changed the album of one.
C21_Witness ==
    /\ cmd \in StudioCmds /\ pc = "done" /\ file.exists
    /\ Len(file.rows) = MaxRows
    /\ \E i \in 1..Len(file.rows) : file.rows[i]["album"] # InputCell(i, "album")
    /\ \E i \in 1..Len(file.rows) : file.rows[i]["artist"] # <<>>

\* The value is empty after trimming (a missing cell has nothing to trim).
Blank(v) == v = NoneV \/ Strip(v) = <<>>

\* The loop of a studio-album step starts on a row whose track or artist is
\* blank.
StartsBlankRow ==
    /\ cmd \in StudioCmds /\ pc = "loop" /\ idx < Len(input)
    /\ pc' \in {"call", "post", "loop"}
    /\ Blank(Get(input[idx + 1], "track")) \/ Blank(Get(input[idx + 1], "artist"))

\* C22: in the studio-album step a row whose track or artist is empty
\* after trimming is appended to the output as it is, no HTTP request is
\* prepared or sent for it and the rate limiter does not sleep for it.
C22_BlankRowSkipped ==
    [][ StartsBlankRow
        => /\ idx' = idx + 1
           /\ out' = Append(out, Entry(cmd, input[idx + 1]))
           /\ pc' # "call" /\ call' = NoCall /\ reqs' = <<>>
           /\ elapsed' = elapsed /\ sinceSend' = sinceSend ]_vars

\* The rows the first n finished rows of the batch appended, in input order.
RECURSIVE ResultsUpTo(_)
ResultsUpTo(n) == IF n = 0 THEN <<>> ELSE ResultsUpTo(n - 1) \o rowlog[n].rows

\* The loop catches a KeyboardInterrupt in this step.
InterruptCaught == interrupted = "no" /\ interrupted' = "caught"

\* The row whose iteration runs: the one whose result was just appended
\* (set_postfix runs), else the one after the finished rows.
RowInProgress == IF pc = "post" THEN idx ELSE idx + 1

\* The step writes its output after the loop caught an interrupt.
WritesAfterInterrupt == interrupted = "caught" /\ pc = "write" /\ pc' = "done"

EnhanceCmds == {"mp_enhance", "ymp_enhance"}

\* The i-th row is a full-album row whose lookup succeeded.
AlbumExpanded(i) ==
    /\ rowlog[i].succ = 1
    /\ Get(input[i], "title") # NoneV
    /\ IsFullAlbum(Get(input[i], "title"))

\* C27: in the enhancement step every processed input row contributes at
\* least one output row, exactly one unless it is a full-album row whose
\* lookup succeeded; the rows of row i precede those of row i+1; the
\* output, accumulated and written, never has fewer rows than rows were
\* processed.
C27_EveryRowContributes ==
    cmd \in EnhanceCmds
    => /\ \A i \in 1..Len(rowlog) :
             /\ Len(rowlog[i].rows) >= 1
             /\ Len(rowlog[i].rows) > 1 => AlbumExpanded(i)
       /\ out = ResultsUpTo(Len(rowlog))
       /\ Len(out) >= Len(rowlog)
       /\ (pc = "done" /\ file.exists) => Len(file.rows) >= Len(rowlog)

(***************************************************************************)
(* The properties of the sort step (specification SpecSort).               *)
(***************************************************************************)
\* The rows the sort step has read, as it sorts them.
SortInput == [i \in 1..Len(input) |-> Entry(cmd, input[i])]

\* The rows are sorted: `out` is the sorted list.
Sorted == cmd \in SortCmds /\ pc = "write"

\* C9: sorting the sorted list yields the same order as sorting once.
C9_SortIdempotent == Sorted => sorted(cmd, out) = out

\* Three rows were sorted into another order and two different rows of
\* them have the same key.
C9_Witness ==
    /\ Sorted /\ Len(out) = MaxSortRows /\ out # SortInput
    /\ \E i, j \in 1..Len(out) :
          i < j /\ out[i] # out[j] /\ KeyOf(cmd, out[i]) = KeyOf(cmd, out[j])

StrLeq(a, b) == ~StrLess(b, a)

ArtistOf(e) == Lower(Strip(e["artist"]))

HasAlbum(e) == Strip(e["album"]) # <<>>

\* C10 as stated: by artist (case-insensitive, trimmed); within an artist
\* the rows with an album first; the rows with albums by album and then by
\* track, compared case-insensitively.
C10_SortOrder ==
    Sorted =>
    \A i, j \in 1..Len(out) : i < j =>
        /\ StrLeq(ArtistOf(out[i]), ArtistOf(out[j]))
        /\ ArtistOf(out[i]) = ArtistOf(out[j]) =>
              /\ HasAlbum(out[j]) => HasAlbum(out[i])
              /\ (HasAlbum(out[i]) /\ HasAlbum(out[j])) =>
                    /\ StrLeq(Lower(out[i]["album"]), Lower(out[j]["album"]))
                    /\ Lower(out[i]["album"]) = Lower(out[j]["album"])
                       => StrLeq(Lower(out[i]["track"]), Lower(out[j]["track"]))

\* C10 amended: album and track are compared case-insensitively and
\* ignoring surrounding whitespace, like the artist.
C10_SortOrderTrimmed ==
    Sorted =>
    \A i, j \in 1..Len(out) : i < j =>
        /\ StrLeq(ArtistOf(out[i]), ArtistOf(out[j]))
        /\ ArtistOf(out[i]) = ArtistOf(out[j]) =>
              /\ HasAlbum(out[j]) => HasAlbum(out[i])
              /\ (HasAlbum(out[i]) /\ HasAlbum(out[j])) =>
                    /\ StrLeq(Lower(Strip(out[i]["album"])), Lower(Strip(out[j]["album"])))
                    /\ Lower(Strip(out[i]["album"])) = Lower(Strip(out[j]["album"]))
                       => StrLeq(Lower(Strip(out[i]["track"])),
                                 Lower(Strip(out[j]["track"])))

\* Sorted rows of two artists, one of them with a row with an album and a
\* row without.
C10_Witness ==
    /\ Sorted /\ Len(out) = MaxSortRows /\ out # SortInput
    /\ \E i, j \in 1..Len(out) : ArtistOf(out[i]) # ArtistOf(out[j])
    /\ \E i, j \in 1..Len(out) :
          /\ ArtistOf(out[i]) = ArtistOf(out[j])
          /\ HasAlbum(out[i]) /\ ~HasAlbum(out[j])

====
